---- MODULE Spec2Model ----
(***************************************************************************)
(* PMM position fetcher: the three-stage resolution pipeline               *)
(* (PMMPositionFetcher.listPmmPositions) and the batched-call executor     *)
(* (Multicall3.batchCall / batchCallWithRetry) it is built on.             *)
(*                                                                         *)
(* One run of listPmmPositions is a state machine whose steps are the      *)
(* segments of the async function between two awaited remote requests.     *)
(* The remote side (registry, aggregator, item contracts) is the           *)
(* environment: every request is answered nondeterministically, any        *)
(* answer other than the regular one being counted against the run's       *)
(* fault budget.                                                           *)
(***************************************************************************)
EXTENDS Integers, Sequences, FiniteSets, TLC

(* ----------------------------- bounds --------------------------------- *)

\* Small environment: registries of at most MaxItems items, at most
\* MaxFaults irregular answers in a run.
MaxItems == 2
MaxFaults == 3
\* Large environment: a registry of exactly BigItems items (several chunks in
\* both batched stages), at most BigFaults irregular answers in a run.
BigItems == 21
BigFaults == 1
\* The number of items of a registry that is read without any fault.
ScenarioItems == 25
\* Stand-alone invocations of batchCallWithRetry: at most MaxCalls calls,
\* maxRetries argument in 0..MaxRetryArg, at most CallFaults irregular answers.
MaxCalls == 3
MaxRetryArg == 2
CallFaults == 3
\* Two runs against a remote state that never changes: registries of at most
\* ScriptItems items.
ScriptItems == 2
\* The time a run takes, in clock ticks between its start and its return.
MaxElapsed == 1

(* ------------------------- program constants -------------------------- *)

ZeroAddress == 0
null == -1
SafetyLimit == 1000
batchSize == 10
positionBatchSize == 20
PipelineMaxRetries == 1
FallbackDecimals == 18
FallbackSymbol == "LP"
SUPPORTED_CHAIN_IDS == {1, 56, 42161, 8453}
CreditVaultAddress == 900

(* ------------------------------ inputs -------------------------------- *)

\* Owner addresses the caller may pass: a well-formed one and a malformed one.
GoodAddress == "0x26a5652812905cc994009902c4b4dff950f96775"
BadAddress == "0x26a5"
OwnerInputs == {GoodAddress, BadAddress}
\* A second well-formed owner, for a run that is concurrent with another.
OtherAddress == "0x1111111111111111111111111111111111111111"
\* Network ids the caller may pass: a supported one and an unsupported one.
ChainInputs == {56, 999}
\* Heights the caller may pass: none (null, the default), block 0 and the
\* block number of the documented examples.
ExampleBlock == 18500000
BlockInputs == {null, 0, ExampleBlock}

\* Variant of isAddress that accepts every string.
isAddress_Any(a) == TRUE

isAddress(a) == a \in {GoodAddress, OtherAddress}
isValidChainId(c) == c \in SUPPORTED_CHAIN_IDS
\* getChainConfig throws for a chain id without an entry in CHAIN_CONFIGS.
hasChainConfig(c) == c \in SUPPORTED_CHAIN_IDS
\* getChainConfig(chainId).name
chainName(c) ==
  CASE c = 1     -> "Ethereum"
    [] c = 56    -> "BSC"
    [] c = 42161 -> "Arbitrum"
    [] c = 8453  -> "Base"

(* ---------------------------- conversions ----------------------------- *)

Min(a, b) == IF a < b THEN a ELSE b

\* Variant of Slice that ignores its end and takes everything from `from` on.
Slice_ToEnd(s, from, to) == SubSeq(s, from + 1, Len(s))

\* Array.prototype.slice(from, to) on a 1-based sequence (from, to 0-based).
Slice(s, from, to) == SubSeq(s, from + 1, Min(to, Len(s)))

DigitChars == <<"0", "1", "2", "3", "4", "5", "6", "7", "8", "9">>

RECURSIVE NatToString(_)
NatToString(n) ==
  IF n < 10 THEN <<DigitChars[n + 1]>>
  ELSE Append(NatToString(n \div 10), DigitChars[(n % 10) + 1])

\* BigInt.prototype.toString(): decimal digits, a leading "-" when negative.
toString(n) == IF n < 0 THEN <<"-">> \o NatToString(-n) ELSE NatToString(n)

DigitValue(c) == CHOOSE d \in 0..9 : DigitChars[d + 1] = c

RECURSIVE ParseNat(_)
ParseNat(s) ==
  IF Len(s) = 0 THEN 0
  ELSE 10 * ParseNat(SubSeq(s, 1, Len(s) - 1)) + DigitValue(s[Len(s)])

\* BigInt(string) for the strings toString produces.
BigInt(s) == IF Len(s) > 0 /\ s[1] = "-" THEN -ParseNat(Tail(s)) ELSE ParseNat(s)

Zeros(n) == [k \in 1..n |-> "0"]

\* Leading zeros of the whole component removed, leaving at least one digit.
RECURSIVE TrimWhole(_)
TrimWhole(s) ==
  IF Len(s) > 1 /\ s[1] = "0" /\ s[2] # "." THEN TrimWhole(Tail(s)) ELSE s

\* Trailing zeros of the decimal component removed, leaving at least one digit.
RECURSIVE TrimFraction(_)
TrimFraction(s) ==
  IF s[Len(s)] = "0" /\ s[Len(s) - 1] # "."
  THEN TrimFraction(SubSeq(s, 1, Len(s) - 1))
  ELSE s

\* Variant of formatUnits that renders the magnitude and forgets the sign.
formatUnits_DropSign(value, decimals) ==
  LET str == NatToString(IF value < 0 THEN -value ELSE value)
  IN  IF decimals = 0 THEN str
      ELSE LET padded == IF Len(str) <= decimals
                         THEN Zeros(decimals + 1 - Len(str)) \o str
                         ELSE str
               idx == Len(padded) - decimals
           IN  TrimFraction(TrimWhole(SubSeq(padded, 1, idx) \o <<".">>
                                        \o SubSeq(padded, idx + 1, Len(padded))))

\* ethers.formatUnits(value, decimals): the digits of the magnitude, padded
\* with zeros up to one whole digit, the decimal point inserted `decimals`
\* digits from the right, the zeros at both ends trimmed (leaving one digit on
\* each side of the point), the sign put back; no point when decimals is 0.
formatUnits(value, decimals) ==
  LET negative == IF value < 0 THEN <<"-">> ELSE <<>>
      str == NatToString(IF value < 0 THEN -value ELSE value)
  IN  IF decimals = 0 THEN negative \o str
      ELSE LET padded == IF Len(str) <= decimals
                         THEN Zeros(decimals + 1 - Len(str)) \o str
                         ELSE str
               idx == Len(padded) - decimals
           IN  negative \o TrimFraction(TrimWhole(SubSeq(padded, 1, idx) \o <<".">>
                                                    \o SubSeq(padded, idx + 1, Len(padded))))

(* --------------------------- remote state ----------------------------- *)

\* The identity the registry holds at an index (unique per index).
RegistryItem(idx) == idx + 1

\* What the remote contracts answer to a call when nothing goes wrong.
RemoteValue(call) ==
  CASE call.callData.method = "underlying" -> call.target + 100
    [] call.callData.method = "decimals"   -> 6
    [] call.callData.method = "symbol"     -> "TKN"
    [] call.callData.method = "positions"  ->
         LET trader == call.callData.params[1]
             t == call.callData.params[2]
         IN  IF trader = OtherAddress THEN 2000 + t
             ELSE IF t % 2 = 1 THEN -(1000 + t) ELSE 1000 + t

\* Irregular answers to one call: "revert" (the call fails), "bad" (the call
\* succeeds with bytes that do not decode), "alt" (the call succeeds with the
\* zero value: a null reference, a zero quantity).
FaultKinds(call) ==
  IF call.callData.method \in {"underlying", "positions"}
  THEN {"revert", "bad", "alt"}
  ELSE {"revert", "bad"}

\* The ABI type a method returns.
ReturnType(call) ==
  CASE call.callData.method = "underlying" -> "address"
    [] call.callData.method = "decimals"   -> "uint8"
    [] call.callData.method = "symbol"     -> "string"
    [] call.callData.method = "positions"  -> "int256"

\* Returned bytes: the ABI type they encode ("" when they encode nothing
\* decodable) and the encoded value.
Bytes(type, value) == [type |-> type, value |-> value]
NoBytes == Bytes("", 0)

\* AbiCoder.decode([type], data) succeeds when the bytes encode that type.
Decodes(type, data) == data.type = type

\* One entry of the aggregator's returnData for a call answered with `kind`.
Answer(call, kind) ==
  CASE kind = "ok"     -> [success |-> TRUE,
                           returnData |-> Bytes(ReturnType(call), RemoteValue(call))]
    [] kind = "alt"    -> [success |-> TRUE,
                           returnData |-> Bytes(ReturnType(call), 0)]
    [] kind = "bad"    -> [success |-> TRUE, returnData |-> NoBytes]
    [] kind = "revert" -> [success |-> FALSE, returnData |-> NoBytes]

\* All subsets of S with at most k elements.
RECURSIVE KSubsets(_, _)
KSubsets(S, k) ==
  IF k <= 0 THEN {{}}
  ELSE LET P == KSubsets(S, k - 1)
       IN  P \cup {T \cup {x} : T \in P, x \in S}

\* The ways the remote side may answer a list of calls with at most b
\* irregular answers: functions from the irregular positions to their kind.
FaultAssignments(reqCalls, b) ==
  UNION { { f \in [S -> {"revert", "bad", "alt"}] :
              \A p \in S : f[p] \in FaultKinds(reqCalls[p]) }
          : S \in KSubsets(1..Len(reqCalls), b) }

KindAt(f, p) == IF p \in DOMAIN f THEN f[p] ELSE "ok"

\* The remote answers to a list of calls, one per call, in call order.
Answers(reqCalls, f) ==
  [p \in 1..Len(reqCalls) |-> Answer(reqCalls[p], KindAt(f, p))]

\* The outcomes of one aggregate request with at most b irregularities: the
\* request fails outright (one irregularity), or it returns one entry per call.
AggregateOutcomes(reqCalls, b) ==
  {[threw |-> FALSE, kinds |-> f] : f \in FaultAssignments(reqCalls, b)}
    \cup (IF b > 0 THEN {[threw |-> TRUE, kinds |-> <<>>]} ELSE {})

Cost(o) == IF o.threw THEN 1 ELSE Cardinality(DOMAIN o.kinds)

\* The outcomes of the registry read at an index: an identity while the
\* registry may still hold one, an end signal once it may end.
ReadOutcomes(e, idx) ==
  (IF idx < e.maxItems THEN {"address"} ELSE {})
    \cup (IF idx >= e.minItems THEN e.endKinds ELSE {})

\* A remote state that answers every call the same way each time: the
\* aggregate requests of the stages in `throws` always fail outright, the
\* calls listed in `faulty` always get their irregular answer, every other
\* call gets the regular one.
NoScript == [on |-> FALSE, throws |-> {}, faulty |-> {}]

\* What a call is about: the item contract it targets, or the token whose
\* quantity it asks for.
Subject(call) ==
  IF call.callData.method = "positions" THEN call.callData.params[2] ELSE call.target

ScriptedKind(s, call) ==
  LET hits == {x \in s.faulty :
                 x.method = call.callData.method /\ x.subject = Subject(call)}
  IN  IF hits = {} THEN "ok" ELSE (CHOOSE x \in hits : TRUE).kind

ScriptedAssignment(s, reqCalls) ==
  [p \in {q \in 1..Len(reqCalls) : ScriptedKind(s, reqCalls[q]) # "ok"} |->
     ScriptedKind(s, reqCalls[p])]

StageOf(reqCalls) ==
  IF reqCalls[1].callData.method = "positions" THEN "pos" ELSE "meta"

ScriptedAggregate(s, reqCalls) ==
  IF StageOf(reqCalls) \in s.throws
  THEN [threw |-> TRUE, kinds |-> <<>>]
  ELSE [threw |-> FALSE, kinds |-> ScriptedAssignment(s, reqCalls)]

(* ------------------------- Multicall3 (multicall.js) ------------------- *)

\* createContractCall: the call object handed to the aggregator; callData is
\* the encoded (method, params) pair.
createContractCall(target, method, params) ==
  [target |-> target,
   allowFailure |-> TRUE,
   callData |-> [method |-> method, params |-> params]]

\* Variant of batchCall that keeps only the successful entries.
batchCall_DropFailed(reqCalls, response) ==
  LET kept == SelectSeq(response, LAMBDA r : r.success)
  IN  [p \in 1..Len(kept) |->
         [success |-> kept[p].success, data |-> kept[p].returnData, call |-> reqCalls[p]]]

\* batchCall: the aggregator's entries mapped to {success, data, call}.
batchCall(reqCalls, response) ==
  [p \in 1..Len(response) |->
     [success |-> response[p].success,
      data |-> response[p].returnData,
      call |-> reqCalls[p]]]

\* Variant of failedCalls without the filter: every call counts as failed.
failedCalls_All(res, reqCalls) ==
  [p \in 1..Len(res) |-> [result |-> res[p], index |-> p, call |-> reqCalls[p]]]

\* batchCallWithRetry: the {result, index, call} triples of the results that
\* are not successful, in index order.
failedCalls(res, reqCalls) ==
  SelectSeq([p \in 1..Len(res) |-> [result |-> res[p], index |-> p, call |-> reqCalls[p]]],
            LAMBDA e : ~e.result.success)

\* batchCallWithRetry: the calls re-submitted in a retry round.
retryCalls(failed) == [r \in 1..Len(failed) |-> failed[r].call]

\* Variant of UpdateResults that writes each retry outcome at its retry index.
UpdateResults_AtRetryIndex(res, failed, retryResults) ==
  [p \in 1..Len(res) |-> IF p <= Len(failed) THEN retryResults[p] ELSE res[p]]

\* Variant of UpdateResults that marks every result failed as soon as one
\* retried call failed again.
UpdateResults_MarkAll(res, failed, retryResults) ==
  [p \in 1..Len(res) |->
     LET updated == IF \E r \in 1..Len(failed) : failed[r].index = p
                    THEN retryResults[CHOOSE r \in 1..Len(failed) : failed[r].index = p]
                    ELSE res[p]
     IN  IF \E r \in 1..Len(retryResults) : ~retryResults[r].success
         THEN [updated EXCEPT !.success = FALSE]
         ELSE updated]

\* batchCallWithRetry: results[index] = retryResults[retryIndex] for each
\* failed call.
UpdateResults(res, failed, retryResults) ==
  [p \in 1..Len(res) |->
     IF \E r \in 1..Len(failed) : failed[r].index = p
     THEN retryResults[CHOOSE r \in 1..Len(failed) : failed[r].index = p]
     ELSE res[p]]

(* ------------------- PMMPositionFetcher (pure parts) ------------------- *)

MethodNames == <<"underlying", "decimals", "symbol">>

\* batchGetUnderlyingTokens: three calls per LP token of the batch.
MetaCalls(batch) ==
  [q \in 1..(3 * Len(batch)) |->
     createContractCall(batch[((q - 1) \div 3) + 1], MethodNames[((q - 1) % 3) + 1], <<>>)]

\* batchGetPositions: one positions(trader, token) call per token of the batch.
PosCalls(batch, trader) ==
  [q \in 1..Len(batch) |->
     createContractCall(CreditVaultAddress, "positions", <<trader, batch[q]>>)]

FallbackEntry(lpTokenAddress) ==
  [lpTokenAddress |-> lpTokenAddress,
   underlyingAddress |-> lpTokenAddress,
   decimals |-> FallbackDecimals,
   symbol |-> FallbackSymbol,
   isLPToken |-> FALSE]

\* Variant of MetaEntry without the null-reference check.
MetaEntry_NoNullCheck(lpTokenAddress, underlyingResult, decimalsResult, symbolResult) ==
  IF underlyingResult.success /\ decimalsResult.success /\ symbolResult.success
     /\ Decodes("address", underlyingResult.data)
     /\ Decodes("uint8", decimalsResult.data)
     /\ Decodes("string", symbolResult.data)
  THEN [lpTokenAddress |-> lpTokenAddress,
        underlyingAddress |-> underlyingResult.data.value,
        decimals |-> decimalsResult.data.value,
        symbol |-> symbolResult.data.value,
        isLPToken |-> TRUE]
  ELSE FallbackEntry(lpTokenAddress)

\* batchGetUnderlyingTokens: the entry pushed for one LP token from its
\* three results (underlying, decimals, symbol).
MetaEntry(lpTokenAddress, underlyingResult, decimalsResult, symbolResult) ==
  IF underlyingResult.success /\ decimalsResult.success /\ symbolResult.success
  THEN IF /\ Decodes("address", underlyingResult.data)
          /\ Decodes("uint8", decimalsResult.data)
          /\ Decodes("string", symbolResult.data)
       THEN IF underlyingResult.data.value # ZeroAddress
            THEN [lpTokenAddress |-> lpTokenAddress,
                  underlyingAddress |-> underlyingResult.data.value,
                  decimals |-> decimalsResult.data.value,
                  symbol |-> symbolResult.data.value,
                  isLPToken |-> TRUE]
            ELSE FallbackEntry(lpTokenAddress)
       ELSE FallbackEntry(lpTokenAddress)
  ELSE FallbackEntry(lpTokenAddress)

\* Reading results[j*3 .. j*3+2] of item j (0-based) raises a TypeError when
\* the condition reaches an entry the result list does not have.
MetaThrows(res, j) ==
  \/ 3 * j + 1 > Len(res)
  \/ /\ res[3 * j + 1].success
     /\ \/ 3 * j + 2 > Len(res)
        \/ res[3 * j + 2].success /\ 3 * j + 3 > Len(res)

\* The number of items of the batch processed before the loop over the
\* batch raises (the batch length n when it does not raise); throws[j]
\* tells whether the iteration of item j (0-based) raises.
ProcessedBefore(throws, n) ==
  CHOOSE j \in 0..n :
    /\ j = n \/ throws[j]
    /\ \A j2 \in 0..(j - 1) : ~throws[j2]

\* Variant of getUnderlyingToken in which a failed symbol read does not
\* reject the whole item.
getUnderlyingToken_IgnoreSymbol(answers) ==
  IF \/ ~answers[1].success \/ ~Decodes("address", answers[1].returnData)
     \/ ~answers[2].success \/ ~Decodes("uint8", answers[2].returnData)
  THEN [isNull |-> TRUE, address |-> ZeroAddress, decimals |-> 0, symbol |-> ""]
  ELSE [isNull |-> FALSE,
        address |-> answers[1].returnData.value,
        decimals |-> answers[2].returnData.value,
        symbol |-> FallbackSymbol]

\* getUnderlyingToken: the three contract reads joined by Promise.all; a
\* read rejects when the call reverts or its answer does not decode.
getUnderlyingToken(answers) ==
  IF \/ ~answers[1].success \/ ~Decodes("address", answers[1].returnData)
     \/ ~answers[2].success \/ ~Decodes("uint8", answers[2].returnData)
     \/ ~answers[3].success \/ ~Decodes("string", answers[3].returnData)
  THEN [isNull |-> TRUE, address |-> ZeroAddress, decimals |-> 0, symbol |-> ""]
  ELSE [isNull |-> FALSE,
        address |-> answers[1].returnData.value,
        decimals |-> answers[2].returnData.value,
        symbol |-> answers[3].returnData.value]

\* batchGetUnderlyingTokens (catch branch): the entry pushed for one LP token.
SerialMetaEntry(lpTokenAddress, underlyingData) ==
  IF ~underlyingData.isNull /\ underlyingData.address # ZeroAddress
  THEN [lpTokenAddress |-> lpTokenAddress,
        underlyingAddress |-> underlyingData.address,
        decimals |-> underlyingData.decimals,
        symbol |-> underlyingData.symbol,
        isLPToken |-> TRUE]
  ELSE FallbackEntry(lpTokenAddress)

\* batchGetPositions: the entry pushed for one token from its result.
PosEntry(tokenAddress, result) ==
  IF result.success
  THEN IF Decodes("int256", result.data)
       THEN [tokenAddress |-> tokenAddress,
             position |-> toString(result.data.value),
             success |-> TRUE]
       ELSE [tokenAddress |-> tokenAddress, position |-> <<"0">>, success |-> FALSE]
  ELSE [tokenAddress |-> tokenAddress, position |-> <<"0">>, success |-> FALSE]

PosThrows(res, j) == j + 1 > Len(res)

\* An entry the loop condition never reads, standing for `undefined`.
Missing == [success |-> FALSE, data |-> NoBytes]
ResultAt(res, p) == IF p <= Len(res) THEN res[p] ELSE Missing

\* getPosition: the quantity read, BigInt(0) when the read fails.
getPosition(answer) ==
  IF answer.success /\ Decodes("int256", answer.returnData)
  THEN answer.returnData.value
  ELSE 0

\* batchGetPositions (catch branch): the entry pushed for one token.
SerialPosEntry(tokenAddress, position) ==
  [tokenAddress |-> tokenAddress, position |-> toString(position), success |-> TRUE]

\* Variant of PositionData that names the LP token whatever the metadata.
PositionData_AlwaysLP(t, positionResult) ==
  [tokenAddress |-> t.underlyingAddress,
   tokenSymbol |-> t.symbol,
   lpTokenAddress |-> t.lpTokenAddress,
   position |-> toString(BigInt(positionResult.position)),
   positionFormatted |-> formatUnits(BigInt(positionResult.position), t.decimals),
   decimals |-> t.decimals]

\* listPmmPositions: the join loop; positionData for index p when the
\* quantity entry is successful and not '0'.
PositionData(t, positionResult) ==
  [tokenAddress |-> t.underlyingAddress,
   tokenSymbol |-> t.symbol,
   lpTokenAddress |-> IF t.isLPToken THEN t.lpTokenAddress ELSE null,
   position |-> toString(BigInt(positionResult.position)),
   positionFormatted |-> formatUnits(BigInt(positionResult.position), t.decimals),
   decimals |-> t.decimals]

\* Variant of JoinFrom that keeps every successful entry, zero or not.
RECURSIVE JoinFrom_KeepZero(_, _, _)
JoinFrom_KeepZero(td, pr, p) ==
  IF p > Len(td) THEN <<>>
  ELSE (IF pr[p].success
        THEN <<PositionData(td[p], pr[p])>>
        ELSE <<>>) \o JoinFrom_KeepZero(td, pr, p + 1)

\* The join loop from index p on: the indices whose quantity entry is
\* successful and not '0' are kept, in order, and positionData is pushed for
\* each.
JoinFrom(td, pr, p) ==
  LET kept == SelectSeq([q \in 1..(Len(td) - p + 1) |-> q + p - 1],
                        LAMBDA q : pr[q].success /\ pr[q].position # <<"0">>)
  IN  [r \in 1..Len(kept) |-> PositionData(td[kept[r]], pr[kept[r]])]

\* The join loop raises a TypeError when positionResults has no entry for an
\* index of tokenData.
JoinThrows(td, pr) == Len(pr) < Len(td)

\* A value of the report's targetBlock field: 'latest' or a block number.
Latest == [latest |-> TRUE, number |-> 0]
BlockNumber(n) == [latest |-> FALSE, number |-> n]

\* JavaScript's truth value of a block number argument: null and 0 are falsy.
truthy(blockNumber) == blockNumber # null /\ blockNumber # 0

\* targetBlock || 'latest'
OrLatest(block) == IF truthy(block) THEN BlockNumber(block) ELSE Latest

\* { blockTag: blockNumber } of a direct contract read: the height the read
\* is pinned to (null: no height, the latest block).
blockTag(blockNumber) == blockNumber

\* Multicall3.aggregate3: options = blockNumber ? { blockTag: blockNumber } : {}
aggregateBlockTag(blockNumber) == IF truthy(blockNumber) THEN blockNumber ELSE null

\* Variant of Report whose totalTokens counts the entries of positions.
Report_CountsPositions(cid, owner, block, positions, total, fetchTime) ==
  [returned |-> TRUE,
   chainId |-> cid,
   chainName |-> chainName(cid),
   pmmAddress |-> owner,
   targetBlock |-> OrLatest(block),
   positions |-> positions,
   summary |-> [totalTokens |-> Len(positions),
                tokensWithPositions |-> Len(positions),
                fetchTime |-> fetchTime]]

\* The report listPmmPositions returns; fetchTime is Date.now() - startTime.
Report(cid, owner, block, positions, total, fetchTime) ==
  [returned |-> TRUE,
   chainId |-> cid,
   chainName |-> chainName(cid),
   pmmAddress |-> owner,
   targetBlock |-> OrLatest(block),
   positions |-> positions,
   summary |-> [totalTokens |-> total,
                tokensWithPositions |-> Len(positions),
                fetchTime |-> fetchTime]]

NoReport ==
  [returned |-> FALSE,
   chainId |-> 0,
   chainName |-> "",
   pmmAddress |-> "",
   targetBlock |-> Latest,
   positions |-> <<>>,
   summary |-> [totalTokens |-> 0, tokensWithPositions |-> 0, fetchTime |-> 0]]

\* getAllLPTokens: one iteration of the while loop on the outcome of the
\* read at `idx`. A read that throws breaks the loop whatever its message.
IsRevertMessage(m) == m \in {"execution reverted", "call revert exception"}

\* Variant of ScanStep without the safety limit.
ScanStep_NoLimit(tokens, idx, out) ==
  IF out.threw
  THEN [lpTokens |-> tokens, index |-> idx, break |-> TRUE, threw |-> FALSE]
  ELSE IF out.value # ZeroAddress
       THEN [lpTokens |-> Append(tokens, out.value),
             index |-> idx + 1,
             break |-> FALSE,
             threw |-> FALSE]
       ELSE [lpTokens |-> tokens, index |-> idx, break |-> TRUE, threw |-> FALSE]

\* Variant of ScanStep that pushes the identity read before testing it.
ScanStep_PushFirst(tokens, idx, out) ==
  IF out.threw
  THEN [lpTokens |-> tokens, index |-> idx, break |-> TRUE, threw |-> FALSE]
  ELSE [lpTokens |-> Append(tokens, out.value),
        index |-> idx + 1,
        break |-> out.value = ZeroAddress \/ idx + 1 > SafetyLimit,
        threw |-> FALSE]

ScanStep(tokens, idx, out) ==
  IF out.threw
  THEN IF IsRevertMessage(out.message)
       THEN [lpTokens |-> tokens, index |-> idx, break |-> TRUE, threw |-> FALSE]
       ELSE [lpTokens |-> tokens, index |-> idx, break |-> TRUE, threw |-> FALSE]
  ELSE IF out.value # ZeroAddress
       THEN [lpTokens |-> Append(tokens, out.value),
             index |-> idx + 1,
             break |-> idx + 1 > SafetyLimit,
             threw |-> FALSE]
       ELSE [lpTokens |-> tokens, index |-> idx, break |-> TRUE, threw |-> FALSE]

\* creditVault.allLPTokens(index): what the read yields for an outcome kind.
allLPTokens(idx, kind) ==
  CASE kind = "address" -> [threw |-> FALSE, message |-> "", value |-> RegistryItem(idx)]
    [] kind = "null"    -> [threw |-> FALSE, message |-> "", value |-> ZeroAddress]
    [] kind = "revert"  -> [threw |-> TRUE, message |-> "execution reverted", value |-> ZeroAddress]
    [] kind = "error"   -> [threw |-> TRUE, message |-> "network timeout", value |-> ZeroAddress]

(* ------------------------------ state --------------------------------- *)

VARIABLES
  pc,              \* position of the run
  pmmAddress,      \* listPmmPositions argument
  chainId,         \* listPmmPositions argument
  targetBlock,     \* listPmmPositions argument (batchCallWithRetry: blockNumber)
  env,             \* the environment the run executes in (never changes)
  budget,          \* irregular answers the environment may still give
  providers,       \* this.providers: per chain id, the memoized provider (0: none)
  index,           \* getAllLPTokens: index
  lpTokens,        \* getAllLPTokens: lpTokens
  reads,           \* history: the registry reads issued, in order
  stage,           \* caller of batchCallWithRetry: "meta", "pos" or "none"
  i,               \* batch loop offset of the current stage
  contractCalls,   \* batchCallWithRetry: contractCalls (batchCalls of the chunk)
  maxRetries,      \* batchCallWithRetry: maxRetries
  results,         \* batchCallWithRetry: results
  retryCount,      \* batchCallWithRetry: retryCount
  requests,        \* history: the aggregate requests of the current invocation
  serialIdx,       \* catch branch: items of the batch already handled
  tokenData,       \* batchGetUnderlyingTokens: tokenData
  subResults,      \* history: per tokenData entry, the three answers it was built from
  positionResults, \* batchGetPositions: positions
  positionSubs,    \* history: per positions entry, the answer it was built from
  report,          \* what listPmmPositions returned
  error,           \* message of the error the run (or invocation) raised
  calls,           \* history: number of remote requests issued, by kind
  previous,        \* history: the outcome of the previous run on this fetcher
  callers,         \* concurrent callers of getProvider, each with its position
  formatter,       \* a stand-alone use of the formatter: its argument and result
  contracts,       \* this.contracts: per chain id, the provider of the memoized contract
  multicalls,      \* this.multicalls: per chain id, the provider of the memoized Multicall3
  teardown,        \* history: the calls of cleanup()
  deadline,        \* the timer a caller races the run against
  handler,         \* one request to the HTTP handler and its responses
  runs,            \* concurrent runs on one fetcher, each with its own locals
  response,        \* a stand-alone use of batchCall: its calls, the aggregator's
                   \* response and its result
  variants         \* the three variants of the pipeline applied to one input

vars == <<pc, pmmAddress, chainId, targetBlock, env, budget, providers, index, lpTokens, reads,
          stage, i, contractCalls, maxRetries, results, retryCount, requests,
          serialIdx, tokenData, subResults, positionResults, positionSubs, report,
          error, calls, previous, callers, formatter, contracts, multicalls,
          teardown, deadline, handler, runs, response, variants>>

inputVars == <<pmmAddress, chainId, targetBlock, env>>
scanVars == <<index, lpTokens, reads>>
batchVars == <<contractCalls, maxRetries, results, retryCount, requests>>
\* State no step of a run touches.
outsideVars == <<previous, callers, formatter, teardown, deadline, handler, runs, response, variants>>
\* The memoized contract and Multicall3 instances.
cacheVars == <<contracts, multicalls>>

\* No run was made on this fetcher before, nobody else is calling
\* getProvider, the formatter is not being used on its own.
NoPrevious ==
  [ran |-> FALSE, outcome |-> "", report |-> NoReport, pmmAddress |-> "",
   chainId |-> 0, providers |-> [c \in SUPPORTED_CHAIN_IDS |-> 0], probes |-> 0]
NoCallers == <<>>
NoFormatter == [value |-> 0, decimals |-> 0, formatted |-> <<>>, done |-> FALSE]

\* this.providers = new Map(); a provider is identified by the rank of its
\* creation (1 for the first JsonRpcProvider created by this fetcher).
NoProviders == [c \in SUPPORTED_CHAIN_IDS |-> 0]
\* this.contracts = new Map(); this.multicalls = new Map()
NoContracts == [c \in SUPPORTED_CHAIN_IDS |-> 0]
NoMulticalls == [c \in SUPPORTED_CHAIN_IDS |-> 0]
\* cleanup() was not called, no timer is running, no request was received,
\* no concurrent run was started.
NoTeardown == [count |-> 0, cleared |-> NoProviders, threw |-> {}]
NoDeadline == [expired |-> FALSE, requests |-> 0]
NoBody == [present |-> FALSE, pmmAddress |-> "", chainId |-> 0, targetBlock |-> null]
NoHandler == [pc |-> "idle", method |-> "", body |-> NoBody, index |-> 0, i |-> 0,
              failed |-> FALSE, responses |-> <<>>, remote |-> 0]
NoRuns == <<>>
NoResponse == [calls |-> <<>>, entries |-> <<>>, results |-> <<>>, done |-> FALSE]
\* No variant of the pipeline was applied.
NoVariants == [on |-> FALSE]

\* blockTags is the set of heights the state reads of the run were pinned to.
\* aggregateMeta and aggregatePos count the aggregate requests of stage 2 and
\* of stage 3; concurrent is the largest number of requests that were
\* outstanding at the same moment.
NoCalls == [probe |-> 0, read |-> 0, aggregate |-> 0, aggregateFailed |-> 0, serial |-> 0,
            aggregateMeta |-> 0, aggregatePos |-> 0, concurrent |-> 0,
            blockTags |-> {}]

\* The peak of outstanding requests once n requests are issued together
\* while nothing else is outstanding.
Peak(n) == IF calls.concurrent < n THEN n ELSE calls.concurrent

EndKinds == {"null", "revert", "error"}
SmallEnv == [minItems |-> 0, maxItems |-> MaxItems, faults |-> MaxFaults,
             endKinds |-> EndKinds, script |-> NoScript]
BigEnv == [minItems |-> BigItems, maxItems |-> BigItems, faults |-> BigFaults,
           endKinds |-> EndKinds, script |-> NoScript]
ScenarioEnv == [minItems |-> ScenarioItems, maxItems |-> ScenarioItems, faults |-> 0,
                endKinds |-> EndKinds, script |-> NoScript]
EndlessEnv == [minItems |-> 0, maxItems |-> SafetyLimit + 2, faults |-> 0,
               endKinds |-> EndKinds, script |-> NoScript]

\* The calls a scripted remote state may answer irregularly.
FaultyCalls ==
  LET items == {RegistryItem(k) : k \in 0..(ScriptItems - 1)}
  IN  {[method |-> m, subject |-> s, kind |-> kd] :
         m \in {"underlying", "decimals", "symbol"}, s \in items,
         kd \in {"revert", "bad", "alt"}}
      \cup {[method |-> "positions", subject |-> s, kind |-> kd] :
               s \in items \cup {RemoteValue(createContractCall(it, "underlying", <<>>)) :
                                    it \in items},
               kd \in {"revert", "bad", "alt"}}

\* Remote states that never change: a registry of n items ended by one
\* signal, aggregate requests that always fail for some stages, at most one
\* call that is always answered irregularly.
ScriptedEnvs ==
  {[minItems |-> n, maxItems |-> n, faults |-> 0, endKinds |-> {k},
    script |-> [on |-> TRUE, throws |-> th, faulty |-> f]] :
     n \in 0..ScriptItems, k \in EndKinds, th \in SUBSET {"meta", "pos"},
     f \in {{}} \cup {{x} : x \in {y \in FaultyCalls :
                 y.kind \in FaultKinds(createContractCall(y.subject, y.method, <<>>))}}}

\* The outcomes of one aggregate3 request, and of the direct reads of one
\* item, in the environment of the run; what they cost the fault budget.
aggregate3(reqCalls) ==
  IF env.script.on
  THEN {ScriptedAggregate(env.script, reqCalls)}
  ELSE AggregateOutcomes(reqCalls, budget)

directReads(reqs) ==
  IF env.script.on
  THEN {ScriptedAssignment(env.script, reqs)}
  ELSE FaultAssignments(reqs, budget)

Charge(n) == IF env.script.on THEN 0 ELSE n

InitRun(envs) ==
  /\ pc = "start"
  /\ pmmAddress \in OwnerInputs
  /\ chainId \in ChainInputs
  /\ targetBlock \in BlockInputs
  /\ env \in envs
  /\ budget = env.faults
  /\ providers = NoProviders
  /\ index = 0
  /\ lpTokens = <<>>
  /\ reads = <<>>
  /\ stage = "none"
  /\ i = 0
  /\ contractCalls = <<>>
  /\ maxRetries = 0
  /\ results = <<>>
  /\ retryCount = 0
  /\ requests = <<>>
  /\ serialIdx = 0
  /\ tokenData = <<>>
  /\ subResults = <<>>
  /\ positionResults = <<>>
  /\ positionSubs = <<>>
  /\ report = NoReport
  /\ error = ""
  /\ calls = NoCalls
  /\ previous = NoPrevious
  /\ callers = NoCallers
  /\ formatter = NoFormatter
  /\ contracts = NoContracts
  /\ multicalls = NoMulticalls
  /\ teardown = NoTeardown
  /\ deadline = NoDeadline
  /\ handler = NoHandler
  /\ runs = NoRuns
  /\ response = NoResponse
  /\ variants = NoVariants

Init == InitRun({SmallEnv, BigEnv, ScenarioEnv})

(* ------------------------ listPmmPositions: entry ---------------------- *)

\* The liveness probe (provider.getBlockNumber() raced against a 10 s timer):
\* it returns, it rejects, or the timer fires first.
ProbeOutcomes == {"ok", "error", "timeout"}
ProbeError(probe) ==
  IF probe = "timeout" THEN "Connection timeout" ELSE "could not detect network"

\* listPmmPositions: input validation, before anything else.
Validate ==
  /\ pc = "start"
  /\ IF ~isAddress(pmmAddress)
     THEN pc' = "failed" /\ error' = "Invalid PMM address"
     ELSE IF ~isValidChainId(chainId)
          THEN pc' = "failed" /\ error' = "Unsupported chain ID"
          ELSE IF ~hasChainConfig(chainId)
               THEN pc' = "failed" /\ error' = "Unsupported chain ID"
               ELSE pc' = "connect" /\ error' = error
  /\ UNCHANGED <<inputVars, outsideVars, cacheVars, budget, providers, scanVars, stage, i, batchVars,
                 serialIdx, tokenData, subResults, positionResults, positionSubs, report, calls>>

\* Variant of getProvider that stores the provider before the probe settles.
getProvider_StoreFirst ==
  /\ pc = "connect"
  /\ IF contracts[chainId] # 0
     THEN pc' = "scan" /\ UNCHANGED <<providers, contracts, error, calls>>
     ELSE IF providers[chainId] # 0
     THEN /\ pc' = "scan"
          /\ contracts' = [contracts EXCEPT ![chainId] = providers[chainId]]
          /\ UNCHANGED <<providers, error, calls>>
     ELSE \E probe \in ProbeOutcomes :
            /\ calls' = [calls EXCEPT !.probe = @ + 1, !.concurrent = Peak(1)]
            /\ providers' = [providers EXCEPT ![chainId] = calls.probe + 1]
            /\ IF probe = "ok"
               THEN /\ pc' = "scan" /\ error' = error
                    /\ contracts' = [contracts EXCEPT ![chainId] = calls.probe + 1]
               ELSE pc' = "failed" /\ error' = ProbeError(probe) /\ contracts' = contracts
  /\ UNCHANGED <<inputVars, outsideVars, multicalls, budget, scanVars, stage, i, batchVars,
                 serialIdx, tokenData, subResults, positionResults, positionSubs, report>>

\* getCreditVaultContract and, when no contract is memoized, getProvider
\* (reached through getAllLPTokens):
\* a memoized provider is returned as is; otherwise the liveness probe is
\* issued and only a provider whose probe succeeded is memoized.
getProvider ==
  /\ pc = "connect"
  /\ IF contracts[chainId] # 0
     THEN pc' = "scan" /\ UNCHANGED <<providers, contracts, error, calls>>
     ELSE IF providers[chainId] # 0
     THEN /\ pc' = "scan"
          /\ contracts' = [contracts EXCEPT ![chainId] = providers[chainId]]
          /\ UNCHANGED <<providers, error, calls>>
     ELSE \E probe \in ProbeOutcomes :
            /\ calls' = [calls EXCEPT !.probe = @ + 1, !.concurrent = Peak(1)]
            /\ IF probe = "ok"
               THEN /\ pc' = "scan" /\ error' = error
                    /\ providers' = [providers EXCEPT ![chainId] = calls.probe + 1]
                    /\ contracts' = [contracts EXCEPT ![chainId] = calls.probe + 1]
               ELSE /\ pc' = "failed" /\ providers' = providers
                    /\ contracts' = contracts
                    /\ error' = ProbeError(probe)
  /\ UNCHANGED <<inputVars, outsideVars, multicalls, budget, scanVars, stage, i, batchVars,
                 serialIdx, tokenData, subResults, positionResults, positionSubs, report>>

(* --------------------------- stage sequencing -------------------------- *)

\* Variant of underlyingAddresses that lists the references last item first.
underlyingAddresses_Reversed(td) ==
  [p \in 1..Len(td) |-> td[Len(td) + 1 - p].underlyingAddress]

underlyingAddresses(td) == [p \in 1..Len(td) |-> td[p].underlyingAddress]

\* The batch of the current chunk: lpTokenAddresses.slice(i, i + batchSize)
\* in stage 2, tokenAddresses.slice(i, i + batchSize) in stage 3.
Batch ==
  IF stage = "meta"
  THEN Slice(lpTokens, i, i + batchSize)
  ELSE Slice(underlyingAddresses(tokenData), i, i + positionBatchSize)

\* Entering one iteration of a batch loop: the chunk's calls are built and
\* batchCallWithRetry(batchCalls, 1, blockNumber) is invoked.
StartChunk(stg, off, batchCalls) ==
  /\ pc' = "bcInitial"
  /\ stage' = stg
  /\ i' = off
  /\ contractCalls' = batchCalls
  /\ maxRetries' = PipelineMaxRetries
  /\ results' = <<>>
  /\ retryCount' = 0
  /\ requests' = <<>>
  /\ serialIdx' = 0
  /\ report' = report
  /\ error' = error

\* listPmmPositions: the join loop and the returned report.
Finish(td, pr) ==
  /\ stage' = "none"
  /\ i' = 0
  /\ contractCalls' = <<>>
  /\ maxRetries' = 0
  /\ results' = <<>>
  /\ retryCount' = 0
  /\ requests' = <<>>
  /\ serialIdx' = 0
  /\ IF JoinThrows(td, pr)
     THEN pc' = "failed" /\ error' = "TypeError" /\ report' = report
     ELSE /\ pc' = "done"
          /\ error' = error
          /\ \E fetchTime \in 0..MaxElapsed :
               report' = Report(chainId, pmmAddress, targetBlock, JoinFrom(td, pr, 1), Len(td),
                                fetchTime)

\* Variant of AfterMetaChunk that starts batchGetPositions after the first
\* chunk of metadata.
AfterMetaChunk_PositionsEarly(td) ==
  IF Len(td) > 0
  THEN StartChunk("pos", 0,
                  PosCalls(Slice(underlyingAddresses(td), 0, positionBatchSize),
                           pmmAddress))
  ELSE Finish(td, <<>>)

\* batchGetUnderlyingTokens: the end of one loop iteration with tokenData td;
\* after the last one, batchGetPositions starts on the underlying addresses.
AfterMetaChunk(td) ==
  IF i + batchSize < Len(lpTokens)
  THEN StartChunk("meta", i + batchSize,
                  MetaCalls(Slice(lpTokens, i + batchSize, i + batchSize + batchSize)))
  ELSE IF Len(td) > 0
       THEN StartChunk("pos", 0,
                       PosCalls(Slice(underlyingAddresses(td), 0, positionBatchSize),
                                pmmAddress))
       ELSE Finish(td, <<>>)

\* batchGetPositions: the end of one loop iteration with positions pr; after
\* the last one, the join.
AfterPosChunk(pr) ==
  LET ua == underlyingAddresses(tokenData)
  IN  IF i + positionBatchSize < Len(ua)
      THEN StartChunk("pos", i + positionBatchSize,
                      PosCalls(Slice(ua, i + positionBatchSize,
                                     i + positionBatchSize + positionBatchSize),
                               pmmAddress))
      ELSE Finish(tokenData, pr)

\* Variant of AfterScan without the early return for an empty list.
AfterScan_NoEarlyReturn(tokens) ==
  StartChunk("meta", 0, MetaCalls(Slice(tokens, 0, batchSize)))

\* listPmmPositions: after getAllLPTokens returned tokens, the empty report
\* is returned at once when there is none; otherwise stage 2 starts.
AfterScan(tokens) ==
  IF Len(tokens) = 0
  THEN /\ pc' = "done"
       /\ \E fetchTime \in 0..MaxElapsed :
            report' = Report(chainId, pmmAddress, targetBlock, <<>>, 0, fetchTime)
       /\ UNCHANGED <<stage, i, batchVars, serialIdx, error>>
  ELSE StartChunk("meta", 0, MetaCalls(Slice(tokens, 0, batchSize)))

(* ---------------------------- getAllLPTokens --------------------------- *)

\* getMulticall at the head of batchGetUnderlyingTokens: the memoized
\* Multicall3 of the network, or a new one on the memoized provider.
getMulticall(memo, provs, c) ==
  IF memo[c] # 0 THEN memo ELSE [memo EXCEPT ![c] = provs[c]]

\* One iteration of the scan loop: the read at `index` and what follows it
\* up to the next remote request (the next read, the first aggregate
\* request, or the return of the empty report).
ScanRead ==
  /\ pc = "scan"
  /\ \E kind \in ReadOutcomes(env, index) :
       LET out == allLPTokens(index, kind)
           st == ScanStep(lpTokens, index, out)
       IN  /\ reads' = Append(reads, [index |-> index, kind |-> kind, value |-> out.value])
           /\ calls' = [calls EXCEPT !.read = @ + 1, !.concurrent = Peak(1),
                                     !.blockTags = @ \cup {blockTag(targetBlock)}]
           /\ lpTokens' = st.lpTokens
           /\ index' = st.index
           /\ IF st.threw
              THEN /\ pc' = "failed" /\ error' = out.message
                   /\ UNCHANGED <<stage, i, batchVars, serialIdx, report>>
              ELSE IF ~st.break
                   THEN /\ pc' = "scan"
                        /\ UNCHANGED <<stage, i, batchVars, serialIdx, report, error>>
                   ELSE AfterScan(st.lpTokens)
           /\ multicalls' = IF ~st.threw /\ st.break /\ Len(st.lpTokens) > 0
                            THEN getMulticall(multicalls, providers, chainId)
                            ELSE multicalls
  /\ UNCHANGED <<inputVars, outsideVars, contracts, budget, providers, tokenData, subResults,
                 positionResults, positionSubs>>

(* -------------------------- batchCallWithRetry ------------------------- *)

\* Variant of Raise in which the caller has no catch branch.
Raise_Propagated ==
  /\ results' = <<>>
  /\ serialIdx' = 0
  /\ pc' = (IF stage = "none" THEN "bcThrown" ELSE "failed")
  /\ error' = "aggregate3 failed"

\* An aggregate request that fails outright makes batchCallWithRetry raise:
\* to its caller's catch branch, or out of a stand-alone invocation.
Raise ==
  /\ results' = <<>>
  /\ serialIdx' = 0
  /\ IF stage = "none"
     THEN pc' = "bcThrown" /\ error' = "aggregate3 failed"
     ELSE pc' = "serial" /\ error' = error

\* Variant of RetryPending whose loop condition is retryCount <= maxRetries.
RetryPending_OneMore ==
  retryCount <= maxRetries /\ Len(failedCalls(results, contractCalls)) > 0

\* Variant of RetryPending that retries whether or not a call failed.
RetryPending_Always == retryCount < maxRetries

RetryPending ==
  retryCount < maxRetries /\ Len(failedCalls(results, contractCalls)) > 0

\* let results = await this.batchCall(contractCalls, blockNumber)
BatchCallInitial ==
  /\ pc = "bcInitial"
  /\ \E o \in aggregate3(contractCalls) :
       /\ budget' = budget - Charge(Cost(o))
       /\ requests' = Append(requests, [calls |-> contractCalls, threw |-> o.threw])
       /\ calls' = [calls EXCEPT !.aggregate = @ + 1,
                                 !.aggregateFailed = @ + (IF o.threw THEN 1 ELSE 0),
                                 !.aggregateMeta = @ + (IF stage = "meta" THEN 1 ELSE 0),
                                 !.aggregatePos = @ + (IF stage = "pos" THEN 1 ELSE 0),
                                 !.concurrent = Peak(1),
                                 !.blockTags = @ \cup {aggregateBlockTag(targetBlock)}]
       /\ IF o.threw
          THEN Raise
          ELSE /\ results' = batchCall(contractCalls, Answers(contractCalls, o.kinds))
               /\ pc' = "bcLoop"
               /\ UNCHANGED <<serialIdx, error>>
  /\ UNCHANGED <<inputVars, outsideVars, cacheVars, providers, scanVars, stage, i, contractCalls, maxRetries,
                 retryCount, tokenData, subResults, positionResults, positionSubs, report>>

\* One round of the retry loop: the failed calls are re-submitted and their
\* outcomes written back.
BatchCallRetry ==
  /\ pc = "bcLoop"
  /\ RetryPending
  /\ LET failed == failedCalls(results, contractCalls)
         retry == retryCalls(failed)
     IN  \E o \in aggregate3(retry) :
           /\ budget' = budget - Charge(Cost(o))
           /\ requests' = Append(requests, [calls |-> retry, threw |-> o.threw])
           /\ calls' = [calls EXCEPT !.aggregate = @ + 1,
                                     !.aggregateFailed = @ + (IF o.threw THEN 1 ELSE 0),
                                 !.aggregateMeta = @ + (IF stage = "meta" THEN 1 ELSE 0),
                                 !.aggregatePos = @ + (IF stage = "pos" THEN 1 ELSE 0),
                                 !.concurrent = Peak(1),
                                 !.blockTags = @ \cup {aggregateBlockTag(targetBlock)}]
           /\ IF o.threw
              THEN Raise /\ retryCount' = retryCount
              ELSE /\ results' = UpdateResults(results, failed,
                                               batchCall(retry, Answers(retry, o.kinds)))
                   /\ retryCount' = retryCount + 1
                   /\ pc' = "bcLoop"
                   /\ UNCHANGED <<serialIdx, error>>
  /\ UNCHANGED <<inputVars, outsideVars, cacheVars, providers, scanVars, stage, i, contractCalls, maxRetries,
                 tokenData, subResults, positionResults, positionSubs, report>>

\* return results (a stand-alone invocation)
BatchCallReturn ==
  /\ pc = "bcLoop"
  /\ ~RetryPending
  /\ stage = "none"
  /\ pc' = "bcReturned"
  /\ UNCHANGED <<inputVars, outsideVars, cacheVars, budget, providers, scanVars, stage, i, batchVars,
                 serialIdx, tokenData, subResults, positionResults, positionSubs, report,
                 error, calls>>

(* ----------------------- batchGetUnderlyingTokens ---------------------- *)

\* History: the answer an entry was built from, in a path-independent shape.
SubOfResult(r) == [success |-> r.success, data |-> r.data]
SubOfAnswer(a) == [success |-> a.success, data |-> a.returnData]
\* History: the answer a positions entry was built from, and whether it was
\* read by the catch branch (getPosition) rather than through the aggregator.
PosSub(sub, serial) == [success |-> sub.success, data |-> sub.data, serial |-> serial]

\* The try branch after batchCallWithRetry returned: the results are
\* processed in triplets, one entry pushed per LP token; a TypeError raised
\* inside the loop is caught by the same catch as an aggregate failure.
ProcessMeta ==
  /\ pc = "bcLoop"
  /\ ~RetryPending
  /\ stage = "meta"
  /\ LET batch == Batch
         m == ProcessedBefore([j \in 0..(Len(batch) - 1) |->
                                MetaThrows(results, j)], Len(batch))
         entries == [j \in 1..m |->
                       MetaEntry(batch[j],
                                 ResultAt(results, 3 * j - 2),
                                 ResultAt(results, 3 * j - 1),
                                 ResultAt(results, 3 * j))]
         subs == [j \in 1..m |->
                    <<SubOfResult(ResultAt(results, 3 * j - 2)),
                      SubOfResult(ResultAt(results, 3 * j - 1)),
                      SubOfResult(ResultAt(results, 3 * j))>>]
     IN  /\ tokenData' = tokenData \o entries
         /\ subResults' = subResults \o subs
         /\ IF m = Len(batch)
            THEN AfterMetaChunk(tokenData \o entries)
            ELSE /\ pc' = "serial"
                 /\ serialIdx' = 0
                 /\ UNCHANGED <<stage, i, contractCalls, maxRetries, results,
                                retryCount, requests, report, error>>
  /\ UNCHANGED <<inputVars, outsideVars, cacheVars, budget, providers, scanVars, positionResults,
                 positionSubs, calls>>

\* The catch branch, one LP token of the batch per step: getUnderlyingToken
\* issues the three reads and the entry is pushed.
SerialMeta ==
  /\ pc = "serial"
  /\ stage = "meta"
  /\ LET batch == Batch
         lpTokenAddress == batch[serialIdx + 1]
         reqs == MetaCalls(<<lpTokenAddress>>)
     IN  \E f \in directReads(reqs) :
           LET answers == Answers(reqs, f)
               entry == SerialMetaEntry(lpTokenAddress, getUnderlyingToken(answers))
           IN  /\ budget' = budget - Charge(Cardinality(DOMAIN f))
               /\ calls' = [calls EXCEPT !.serial = @ + 3, !.concurrent = Peak(3),
                                            !.blockTags = @ \cup {blockTag(targetBlock)}]
               /\ tokenData' = Append(tokenData, entry)
               /\ subResults' = Append(subResults,
                                       [q \in 1..3 |-> SubOfAnswer(answers[q])])
               /\ IF serialIdx + 1 >= Len(batch)
                  THEN AfterMetaChunk(Append(tokenData, entry))
                  ELSE /\ serialIdx' = serialIdx + 1
                       /\ UNCHANGED <<pc, stage, i, batchVars, report, error>>
  /\ UNCHANGED <<inputVars, outsideVars, cacheVars, providers, scanVars, positionResults, positionSubs>>

(* --------------------------- batchGetPositions ------------------------- *)

\* The try branch after batchCallWithRetry returned: one entry pushed per
\* token of the batch.
ProcessPos ==
  /\ pc = "bcLoop"
  /\ ~RetryPending
  /\ stage = "pos"
  /\ LET batch == Batch
         m == ProcessedBefore([j \in 0..(Len(batch) - 1) |->
                                PosThrows(results, j)], Len(batch))
         entries == [j \in 1..m |-> PosEntry(batch[j], results[j])]
         subs == [j \in 1..m |-> PosSub(SubOfResult(results[j]), FALSE)]
     IN  /\ positionResults' = positionResults \o entries
         /\ positionSubs' = positionSubs \o subs
         /\ IF m = Len(batch)
            THEN AfterPosChunk(positionResults \o entries)
            ELSE /\ pc' = "serial"
                 /\ serialIdx' = 0
                 /\ UNCHANGED <<stage, i, contractCalls, maxRetries, results,
                                retryCount, requests, report, error>>
  /\ UNCHANGED <<inputVars, outsideVars, cacheVars, budget, providers, scanVars, tokenData,
                 subResults, calls>>

\* The catch branch, one token of the batch per step: getPosition issues the
\* read and the entry is pushed.
SerialPos ==
  /\ pc = "serial"
  /\ stage = "pos"
  /\ LET batch == Batch
         tokenAddress == batch[serialIdx + 1]
         reqs == PosCalls(<<tokenAddress>>, pmmAddress)
     IN  \E f \in directReads(reqs) :
           LET answers == Answers(reqs, f)
               entry == SerialPosEntry(tokenAddress, getPosition(answers[1]))
           IN  /\ budget' = budget - Charge(Cardinality(DOMAIN f))
               /\ calls' = [calls EXCEPT !.serial = @ + 1, !.concurrent = Peak(1),
                                            !.blockTags = @ \cup {blockTag(targetBlock)}]
               /\ positionResults' = Append(positionResults, entry)
               /\ positionSubs' = Append(positionSubs,
                                         PosSub(SubOfAnswer(answers[1]), TRUE))
               /\ IF serialIdx + 1 >= Len(batch)
                  THEN AfterPosChunk(Append(positionResults, entry))
                  ELSE /\ serialIdx' = serialIdx + 1
                       /\ UNCHANGED <<pc, stage, i, batchVars, report, error>>
  /\ UNCHANGED <<inputVars, outsideVars, cacheVars, providers, scanVars, tokenData, subResults>>

(* ------------------------- a second invocation ------------------------- *)

\* Variant of FreshList in which the list outlives the invocation.
FreshList_Kept(old) == old

\* const lpTokens = []: the list of an invocation starts empty whatever an
\* earlier invocation left.
FreshList(old) == <<>>

\* The caller invokes listPmmPositions again on the same fetcher once the
\* first invocation has returned or thrown: the fetcher keeps its providers,
\* everything else is local to an invocation.
Rerun ==
  /\ pc \in {"done", "failed"}
  /\ ~previous.ran
  /\ previous' = [ran |-> TRUE, outcome |-> pc, report |-> report,
                  pmmAddress |-> pmmAddress, chainId |-> chainId,
                  providers |-> providers, probes |-> calls.probe]
  /\ pc' = "start"
  /\ pmmAddress' = pmmAddress
  /\ chainId' \in {chainId, 1}
  /\ targetBlock' = targetBlock
  /\ budget' = env.faults
  /\ index' = 0
  /\ lpTokens' = FreshList(lpTokens)
  /\ reads' = <<>>
  /\ stage' = "none"
  /\ i' = 0
  /\ contractCalls' = <<>>
  /\ maxRetries' = 0
  /\ results' = <<>>
  /\ retryCount' = 0
  /\ requests' = <<>>
  /\ serialIdx' = 0
  /\ tokenData' = <<>>
  /\ subResults' = <<>>
  /\ positionResults' = <<>>
  /\ positionSubs' = <<>>
  /\ report' = NoReport
  /\ error' = ""
  /\ calls' = [NoCalls EXCEPT !.probe = calls.probe]
  /\ UNCHANGED <<env, providers, callers, formatter, contracts, multicalls,
                 teardown, deadline, handler, runs, response, variants>>

(* --------------------------- specifications ---------------------------- *)

\* One run of listPmmPositions.
Next ==
  \/ Validate
  \/ getProvider
  \/ ScanRead
  \/ BatchCallInitial
  \/ BatchCallRetry
  \/ ProcessMeta
  \/ SerialMeta
  \/ ProcessPos
  \/ SerialPos

Spec == Init /\ [][Next]_vars

\* The scan of a run against a registry that may hold an identity at every
\* index.
InitScan == InitRun({EndlessEnv})

NextScan ==
  \/ Validate
  \/ getProvider
  \/ ScanRead

SpecScan == InitScan /\ [][NextScan]_vars

\* A registry that holds an identity at every index the scan reads and never
\* returns the null identity, read without any fault.
NeverEndingEnv == [minItems |-> SafetyLimit + 2, maxItems |-> SafetyLimit + 2, faults |-> 0,
                   endKinds |-> EndKinds, script |-> NoScript]

\* A whole run, on a small registry with faults or on the never-ending one.
InitFinish == InitRun({SmallEnv, NeverEndingEnv})

SpecFinish == InitFinish /\ [][Next]_vars

\* Two invocations of listPmmPositions, one after the other, on one fetcher
\* and against a remote state that never changes.
InitTwice == InitRun(ScriptedEnvs)

NextTwice ==
  \/ Validate
  \/ getProvider
  \/ ScanRead
  \/ BatchCallInitial
  \/ BatchCallRetry
  \/ ProcessMeta
  \/ SerialMeta
  \/ ProcessPos
  \/ SerialPos
  \/ Rerun

SpecTwice == InitTwice /\ [][NextTwice]_vars

(* ------------------------- a run under a deadline ---------------------- *)

\* The remote requests the run has issued so far.
TotalRequests == calls.probe + calls.read + calls.aggregate + calls.serial

\* The caller's timer fires while listPmmPositions is still awaiting a remote
\* request: Promise.race rejects with the timeout error. Nothing is told to
\* the run.
Expire ==
  /\ pc \notin {"start", "done", "failed"}
  /\ ~deadline.expired
  /\ deadline' = [expired |-> TRUE, requests |-> TotalRequests]
  /\ UNCHANGED <<pc, inputVars, budget, providers, scanVars, stage, i, batchVars,
                 serialIdx, tokenData, subResults, positionResults, positionSubs,
                 report, error, calls, previous, callers, formatter, cacheVars,
                 teardown, handler, runs, response, variants>>

\* What the caller that races the run against the timer is given.
CallerOutcome ==
  IF deadline.expired THEN "timeout"
  ELSE IF pc = "done" THEN "report"
  ELSE IF pc = "failed" THEN "error"
  ELSE "pending"

InitDeadline == InitRun({SmallEnv})

NextDeadline ==
  \/ Validate
  \/ getProvider
  \/ ScanRead
  \/ BatchCallInitial
  \/ BatchCallRetry
  \/ ProcessMeta
  \/ SerialMeta
  \/ ProcessPos
  \/ SerialPos
  \/ Expire

SpecDeadline == InitDeadline /\ [][NextDeadline]_vars

(* -------------------------------- cleanup ------------------------------ *)

\* The number of times cleanup() is called on the fetcher.
MaxCleanups == 1

\* The networks whose provider throws while it is torn down.
Throwing(provs) == SUBSET {c \in DOMAIN provs : provs[c] # 0}

\* Variant of Cleared in which a throwing teardown ends cleanup() early.
Cleared_UnlessThrown(memo, threw) ==
  IF threw = {} THEN [c \in DOMAIN memo |-> 0] ELSE memo

\* What cleanup() leaves of a memo map when tearing down throws for the
\* networks in threw: the try/catch inside the loop swallows the error.
Cleared(memo, threw) == [c \in DOMAIN memo |-> 0]

\* cleanup(), called between runs: every memoized provider is torn down and
\* the three maps are cleared.
cleanup ==
  /\ pc \in {"start", "done", "failed"}
  /\ teardown.count < MaxCleanups
  /\ \E threw \in Throwing(providers) :
       /\ teardown' = [count |-> teardown.count + 1, cleared |-> providers, threw |-> threw]
       /\ providers' = Cleared(providers, threw)
       /\ contracts' = Cleared(contracts, threw)
       /\ multicalls' = Cleared(multicalls, threw)
  /\ UNCHANGED <<pc, inputVars, budget, scanVars, stage, i, batchVars, serialIdx,
                 tokenData, subResults, positionResults, positionSubs, report, error,
                 calls, previous, callers, formatter, deadline, handler, runs, response, variants>>

\* The remote states the runs around cleanup() execute in: the registry ends
\* with a null item; aggregate requests fail or one call does, not both.
CleanupEnvs ==
  {e \in ScriptedEnvs : /\ e.endKinds = {"null"}
                        /\ e.script.throws = {} \/ e.script.faulty = {}}

InitCleanup == InitRun(CleanupEnvs)

NextCleanup ==
  \/ Validate
  \/ getProvider
  \/ ScanRead
  \/ BatchCallInitial
  \/ BatchCallRetry
  \/ ProcessMeta
  \/ SerialMeta
  \/ ProcessPos
  \/ SerialPos
  \/ Rerun
  \/ cleanup

SpecCleanup == InitCleanup /\ [][NextCleanup]_vars

(* --------------------- two runs on the same fetcher -------------------- *)

\* Two invocations of listPmmPositions on one fetcher, for two owners on the
\* same network, both in progress at once. An async function runs until its
\* next await and JavaScript then resumes whichever invocation is ready, so
\* the variables of the run hold the locals of the invocation that is
\* executing and `runs.suspended` holds those of the invocation waiting at
\* an await. The fetcher's maps (providers, contracts, multicalls) belong to
\* neither.
Frame ==
  [pc |-> pc, pmmAddress |-> pmmAddress, targetBlock |-> targetBlock,
   index |-> index, lpTokens |-> lpTokens, reads |-> reads, stage |-> stage,
   i |-> i, contractCalls |-> contractCalls, maxRetries |-> maxRetries,
   results |-> results, retryCount |-> retryCount, requests |-> requests,
   serialIdx |-> serialIdx, tokenData |-> tokenData, subResults |-> subResults,
   positionResults |-> positionResults, positionSubs |-> positionSubs,
   report |-> report, error |-> error]

\* The locals of an invocation that has just been called.
NewFrame(owner, block) ==
  [pc |-> "start", pmmAddress |-> owner, targetBlock |-> block,
   index |-> 0, lpTokens |-> <<>>, reads |-> <<>>, stage |-> "none",
   i |-> 0, contractCalls |-> <<>>, maxRetries |-> 0,
   results |-> <<>>, retryCount |-> 0, requests |-> <<>>,
   serialIdx |-> 0, tokenData |-> <<>>, subResults |-> <<>>,
   positionResults |-> <<>>, positionSubs |-> <<>>,
   report |-> NoReport, error |-> ""]

\* Variant of Resumed in which tokenData is a field of the fetcher, shared by
\* its invocations.
Resumed_SharedTokenData(saved, current) ==
  [saved EXCEPT !.tokenData = current.tokenData]

\* The locals an invocation finds when it resumes: its own, as it left them.
Resumed(saved, current) == saved

InitConcurrent ==
  /\ pc = "start"
  /\ pmmAddress = GoodAddress
  /\ chainId = 56
  /\ targetBlock \in {null, ExampleBlock}
  /\ env \in CleanupEnvs
  /\ budget = env.faults
  /\ providers = NoProviders
  /\ index = 0
  /\ lpTokens = <<>>
  /\ reads = <<>>
  /\ stage = "none"
  /\ i = 0
  /\ contractCalls = <<>>
  /\ maxRetries = 0
  /\ results = <<>>
  /\ retryCount = 0
  /\ requests = <<>>
  /\ serialIdx = 0
  /\ tokenData = <<>>
  /\ subResults = <<>>
  /\ positionResults = <<>>
  /\ positionSubs = <<>>
  /\ report = NoReport
  /\ error = ""
  /\ calls = NoCalls
  /\ previous = NoPrevious
  /\ callers = NoCallers
  /\ formatter = NoFormatter
  /\ contracts = NoContracts
  /\ multicalls = NoMulticalls
  /\ teardown = NoTeardown
  /\ deadline = NoDeadline
  /\ handler = NoHandler
  /\ response = NoResponse
  /\ variants = NoVariants
  /\ \E block \in {null, ExampleBlock} :
       runs = [active |-> 1, suspended |-> NewFrame(OtherAddress, block)]

\* getCreditVaultContract up to the await of the liveness probe: a memoized
\* contract or provider is used as is; otherwise a provider is created and
\* its probe issued.
getProviderBegin ==
  /\ pc = "connect"
  /\ IF contracts[chainId] # 0
     THEN pc' = "scan" /\ UNCHANGED <<contracts, calls>>
     ELSE IF providers[chainId] # 0
     THEN /\ pc' = "scan"
          /\ contracts' = [contracts EXCEPT ![chainId] = providers[chainId]]
          /\ calls' = calls
     ELSE /\ pc' = "probing"
          /\ calls' = [calls EXCEPT !.probe = @ + 1, !.concurrent = Peak(1)]
          /\ contracts' = contracts
  /\ UNCHANGED <<inputVars, outsideVars, multicalls, budget, providers, scanVars, stage, i,
                 batchVars, serialIdx, tokenData, subResults, positionResults,
                 positionSubs, report, error>>

\* The probe settles: a provider whose probe succeeded is memoized, and the
\* contract built on it; a failed probe fails the invocation.
getProviderSettle ==
  /\ pc = "probing"
  /\ \E probe \in ProbeOutcomes :
       IF probe = "ok"
       THEN /\ pc' = "scan" /\ error' = error
            /\ providers' = [providers EXCEPT ![chainId] = calls.probe]
            /\ contracts' = [contracts EXCEPT ![chainId] = calls.probe]
       ELSE /\ pc' = "failed" /\ error' = ProbeError(probe)
            /\ UNCHANGED <<providers, contracts>>
  /\ UNCHANGED <<inputVars, outsideVars, multicalls, budget, scanVars, stage, i, batchVars,
                 serialIdx, tokenData, subResults, positionResults, positionSubs, report,
                 calls>>

\* The executing invocation waits at an await (or has settled) and the other
\* one resumes.
Switch ==
  /\ runs.suspended.pc \notin {"done", "failed"}
  /\ LET f == Resumed(runs.suspended, Frame)
     IN  /\ runs' = [active |-> 3 - runs.active, suspended |-> Frame]
         /\ pc' = f.pc
         /\ pmmAddress' = f.pmmAddress
         /\ targetBlock' = f.targetBlock
         /\ index' = f.index
         /\ lpTokens' = f.lpTokens
         /\ reads' = f.reads
         /\ stage' = f.stage
         /\ i' = f.i
         /\ contractCalls' = f.contractCalls
         /\ maxRetries' = f.maxRetries
         /\ results' = f.results
         /\ retryCount' = f.retryCount
         /\ requests' = f.requests
         /\ serialIdx' = f.serialIdx
         /\ tokenData' = f.tokenData
         /\ subResults' = f.subResults
         /\ positionResults' = f.positionResults
         /\ positionSubs' = f.positionSubs
         /\ report' = f.report
         /\ error' = f.error
  /\ UNCHANGED <<chainId, env, budget, providers, contracts, multicalls, calls, previous,
                 callers, formatter, teardown, deadline, handler, response, variants>>

NextConcurrent ==
  \/ Validate
  \/ getProviderBegin
  \/ getProviderSettle
  \/ ScanRead
  \/ BatchCallInitial
  \/ BatchCallRetry
  \/ ProcessMeta
  \/ SerialMeta
  \/ ProcessPos
  \/ SerialPos
  \/ Switch

SpecConcurrent == InitConcurrent /\ [][NextConcurrent]_vars

\* The report a run for `owner` at height `block` returns when it runs alone
\* against the remote state of env (a state that answers each call the same
\* way every time), computed stage after stage: the registry's items, their
\* metadata, their quantities, the join.
SoloItems == [p \in 1..env.maxItems |-> RegistryItem(p - 1)]

SoloTokenData ==
  LET reqCalls == MetaCalls(SoloItems)
      o == ScriptedAggregate(env.script, reqCalls)
      res == batchCall(reqCalls, Answers(reqCalls, o.kinds))
  IN  [p \in 1..Len(SoloItems) |->
         IF o.threw
         THEN LET reqs == MetaCalls(<<SoloItems[p]>>)
              IN  SerialMetaEntry(SoloItems[p],
                    getUnderlyingToken(Answers(reqs, ScriptedAssignment(env.script, reqs))))
         ELSE MetaEntry(SoloItems[p], res[3 * p - 2], res[3 * p - 1], res[3 * p])]

SoloPositions(owner) ==
  LET ua == underlyingAddresses(SoloTokenData)
      reqCalls == PosCalls(ua, owner)
      o == ScriptedAggregate(env.script, reqCalls)
      res == batchCall(reqCalls, Answers(reqCalls, o.kinds))
  IN  [p \in 1..Len(ua) |->
         IF o.threw
         THEN LET reqs == PosCalls(<<ua[p]>>, owner)
              IN  SerialPosEntry(ua[p],
                    getPosition(Answers(reqs, ScriptedAssignment(env.script, reqs))[1]))
         ELSE PosEntry(ua[p], res[p])]

SoloReport(owner, block) ==
  IF env.maxItems = 0
  THEN Report(chainId, owner, block, <<>>, 0, 0)
  ELSE Report(chainId, owner, block,
              JoinFrom(SoloTokenData, SoloPositions(owner), 1), Len(SoloItems), 0)

\* A report without the time the run took.
Timeless(r) == [r EXCEPT !.summary.fetchTime = 0]

\* One stand-alone invocation of batchCallWithRetry(contractCalls, maxRetries).
InitCall ==
  /\ pc = "bcInitial"
  /\ pmmAddress = GoodAddress
  /\ chainId = 56
  /\ targetBlock \in BlockInputs
  /\ env = [minItems |-> 0, maxItems |-> 0, faults |-> CallFaults,
            endKinds |-> EndKinds, script |-> NoScript]
  /\ budget = CallFaults
  /\ providers = [NoProviders EXCEPT ![56] = 1]
  /\ index = 0
  /\ lpTokens = <<>>
  /\ reads = <<>>
  /\ stage = "none"
  /\ i = 0
  /\ contractCalls \in {PosCalls([q \in 1..n |-> q], GoodAddress) : n \in 0..MaxCalls}
  /\ maxRetries \in 0..MaxRetryArg
  /\ results = <<>>
  /\ retryCount = 0
  /\ requests = <<>>
  /\ serialIdx = 0
  /\ tokenData = <<>>
  /\ subResults = <<>>
  /\ positionResults = <<>>
  /\ positionSubs = <<>>
  /\ report = NoReport
  /\ error = ""
  /\ calls = NoCalls
  /\ previous = NoPrevious
  /\ callers = NoCallers
  /\ formatter = NoFormatter
  /\ contracts = NoContracts
  /\ multicalls = NoMulticalls
  /\ teardown = NoTeardown
  /\ deadline = NoDeadline
  /\ handler = NoHandler
  /\ runs = NoRuns
  /\ response = NoResponse
  /\ variants = NoVariants

NextCall ==
  \/ BatchCallInitial
  \/ BatchCallRetry
  \/ BatchCallReturn

SpecCall == InitCall /\ [][NextCall]_vars

\* The same invocation when every aggregate request it awaits settles (it
\* answers or fails), so that the invocation is resumed after each await.
SpecCallFair == SpecCall /\ WF_vars(NextCall)

(* ------------------------ the formatter on its own --------------------- *)

\* The largest magnitude and the largest number of decimals formatted.
MaxMagnitude == 1500
MaxScale == 3

\* A fetcher on which no run has been started.
NoRun ==
  /\ pc = "start"
  /\ pmmAddress = GoodAddress
  /\ chainId = 56
  /\ targetBlock = null
  /\ env = [minItems |-> 0, maxItems |-> 0, faults |-> 0,
            endKinds |-> EndKinds, script |-> NoScript]
  /\ budget = 0
  /\ providers = NoProviders
  /\ index = 0
  /\ lpTokens = <<>>
  /\ reads = <<>>
  /\ stage = "none"
  /\ i = 0
  /\ contractCalls = <<>>
  /\ maxRetries = 0
  /\ results = <<>>
  /\ retryCount = 0
  /\ requests = <<>>
  /\ serialIdx = 0
  /\ tokenData = <<>>
  /\ subResults = <<>>
  /\ positionResults = <<>>
  /\ positionSubs = <<>>
  /\ report = NoReport
  /\ error = ""
  /\ calls = NoCalls
  /\ previous = NoPrevious
  /\ contracts = NoContracts
  /\ multicalls = NoMulticalls
  /\ teardown = NoTeardown
  /\ deadline = NoDeadline

runVars == <<pc, pmmAddress, chainId, targetBlock, env, budget, providers, index, lpTokens, reads,
             stage, i, contractCalls, maxRetries, results, retryCount, requests,
             serialIdx, tokenData, subResults, positionResults, positionSubs, report,
             error, calls, previous, contracts, multicalls, teardown, deadline>>

\* ethers.formatUnits(position, decimals) is about to be applied to a signed
\* raw quantity and a number of decimals.
InitFormat ==
  /\ NoRun
  /\ callers = NoCallers
  /\ handler = NoHandler
  /\ runs = NoRuns
  /\ response = NoResponse
  /\ variants = NoVariants
  /\ formatter \in [value : (-MaxMagnitude)..MaxMagnitude, decimals : 0..MaxScale,
                     formatted : {<<>>}, done : {FALSE}]

\* positionFormatted: ethers.formatUnits(position, decimals)
Format ==
  /\ ~formatter.done
  /\ formatter' = [formatter EXCEPT
                     !.formatted = formatUnits(formatter.value, formatter.decimals),
                     !.done = TRUE]
  /\ UNCHANGED <<runVars, callers, handler, runs, response, variants>>

NextFormat == Format

SpecFormat == InitFormat /\ [][NextFormat]_vars

(* -------------------------- batchCall on its own ----------------------- *)

\* The responses an aggregator may give to a list of calls: one entry per
\* call, regular or irregular, or such a response cut short.
Responses(reqCalls) ==
  {SubSeq(Answers(reqCalls, f), 1, m) :
     f \in FaultAssignments(reqCalls, Len(reqCalls)), m \in 0..Len(reqCalls)}

\* Multicall3.batchCall(contractCalls) is about to be applied; the aggregate3
\* request will be answered by `entries`.
InitBatchCall ==
  /\ NoRun
  /\ callers = NoCallers
  /\ formatter = NoFormatter
  /\ handler = NoHandler
  /\ runs = NoRuns
  /\ variants = NoVariants
  /\ \E n \in 0..MaxCalls :
       LET reqCalls == PosCalls([q \in 1..n |-> q], GoodAddress)
       IN  response \in [calls : {reqCalls}, entries : Responses(reqCalls),
                         results : {<<>>}, done : {FALSE}]

\* return results.map((result, index) => ({ success, data, call }))
BatchCallMap ==
  /\ ~response.done
  /\ response' = [response EXCEPT !.results = batchCall(response.calls, response.entries),
                                  !.done = TRUE]
  /\ UNCHANGED <<runVars, callers, formatter, handler, runs, variants>>

NextBatchCall == BatchCallMap

SpecBatchCall == InitBatchCall /\ [][NextBatchCall]_vars

(* ------------------- concurrent calls of getProvider ------------------- *)

\* The number of callers that share the fetcher.
MaxCallers == 3

\* A caller has not called yet ("idle"), awaits the probe of the provider it
\* created ("probing"), was handed a provider ("returned") or had its call
\* rejected ("threw").
IdleCaller(c) == [pc |-> "idle", chainId |-> c, provider |-> 0]

InitConnect ==
  /\ NoRun
  /\ formatter = NoFormatter
  /\ handler = NoHandler
  /\ runs = NoRuns
  /\ response = NoResponse
  /\ variants = NoVariants
  /\ callers \in [1..MaxCallers -> {IdleCaller(c) : c \in ChainInputs \cup {1}}]

\* getProvider up to its await: the chain id check, the look-up in
\* this.providers, new ethers.JsonRpcProvider and the start of the probe.
GetProviderCall(c) ==
  /\ callers[c].pc = "idle"
  /\ IF ~isValidChainId(callers[c].chainId)
     THEN /\ callers' = [callers EXCEPT ![c].pc = "threw"]
          /\ calls' = calls
     ELSE IF providers[callers[c].chainId] # 0
     THEN /\ callers' = [callers EXCEPT ![c].pc = "returned",
                                        ![c].provider = providers[callers[c].chainId]]
          /\ calls' = calls
     ELSE /\ callers' = [callers EXCEPT ![c].pc = "probing",
                                        ![c].provider = calls.probe + 1]
          /\ calls' = [calls EXCEPT !.probe = @ + 1, !.concurrent = Peak(1)]
  /\ UNCHANGED <<pc, pmmAddress, chainId, targetBlock, env, budget, providers, index, lpTokens,
                 reads, stage, i, contractCalls, maxRetries, results, retryCount,
                 requests, serialIdx, tokenData, subResults, positionResults,
                 positionSubs, report, error, previous, formatter, contracts,
                 multicalls, teardown, deadline, handler, runs, response, variants>>

\* getProvider after its await: the probe settled; this.providers.set and
\* return on success, `throw error` otherwise.
GetProviderResume(c) ==
  /\ callers[c].pc = "probing"
  /\ \E probe \in ProbeOutcomes :
       IF probe = "ok"
       THEN /\ providers' = [providers EXCEPT ![callers[c].chainId] = callers[c].provider]
            /\ callers' = [callers EXCEPT ![c].pc = "returned"]
       ELSE /\ providers' = providers
            /\ callers' = [callers EXCEPT ![c].pc = "threw", ![c].provider = 0]
  /\ UNCHANGED <<pc, pmmAddress, chainId, targetBlock, env, budget, index, lpTokens,
                 reads, stage, i, contractCalls, maxRetries, results, retryCount,
                 requests, serialIdx, tokenData, subResults, positionResults,
                 positionSubs, report, error, calls, previous, formatter,
                 contracts, multicalls, teardown, deadline, handler, runs, response, variants>>

NextConnect ==
  \/ \E c \in 1..MaxCallers : GetProviderCall(c)
  \/ \E c \in 1..MaxCallers : GetProviderResume(c)

SpecConnect == InitConnect /\ [][NextConnect]_vars

(* --------------------------- the HTTP handler -------------------------- *)

\* The largest registry a request to the handler scans.
MaxHandlerItems == 2

\* req.method and req.body: no body at all, or an object whose pmmAddress
\* and chainId are missing ("" and 0), malformed, unsupported or valid.
Methods == {"OPTIONS", "GET", "POST"}
Bodies ==
  {NoBody} \cup [present : {TRUE}, pmmAddress : {"", BadAddress, GoodAddress},
                 chainId : {0, 56, 999}, targetBlock : BlockInputs]

InitHandler ==
  /\ NoRun
  /\ callers = NoCallers
  /\ formatter = NoFormatter
  /\ runs = NoRuns
  /\ response = NoResponse
  /\ variants = NoVariants
  /\ handler \in [pc : {"received"}, method : Methods, body : Bodies, index : {0},
                   i : {0}, failed : {FALSE}, responses : {<<>>}, remote : {0}]

\* res.status(code).json(...) / res.status(code).end() / res.json(report)
Respond(h, code, isReport) ==
  [h EXCEPT !.pc = "sent",
            !.responses = Append(@, [status |-> code, report |-> isReport])]

\* handler: the method checks and the validation of the body; destructuring
\* a body that is not there throws inside the try block.
HandlerReceive ==
  /\ handler.pc = "received"
  /\ handler' =
       IF handler.method = "OPTIONS" THEN Respond(handler, 200, FALSE)
       ELSE IF handler.method # "POST" THEN Respond(handler, 405, FALSE)
       ELSE IF ~handler.body.present
            THEN Respond([handler EXCEPT !.failed = TRUE], 500, FALSE)
       ELSE IF handler.body.pmmAddress = "" \/ handler.body.chainId = 0
            THEN Respond(handler, 400, FALSE)
       ELSE IF ~isAddress(handler.body.pmmAddress) THEN Respond(handler, 400, FALSE)
       ELSE IF ~hasChainConfig(handler.body.chainId) THEN Respond(handler, 400, FALSE)
       ELSE [handler EXCEPT !.pc = "scan"]
  /\ UNCHANGED <<runVars, callers, formatter, runs, response, variants>>

\* handler: one iteration of the scan loop; a generic error leaves the try
\* block, an empty list is answered at once.
HandlerScan ==
  /\ handler.pc = "scan"
  /\ \E kind \in {"null", "revert", "error"}
                 \cup (IF handler.index < MaxHandlerItems THEN {"address"} ELSE {}) :
       LET h == [handler EXCEPT !.remote = @ + 1]
       IN  handler' =
             IF kind = "error" THEN Respond([h EXCEPT !.failed = TRUE], 500, FALSE)
             ELSE IF kind = "address" /\ h.index + 1 <= SafetyLimit
                  THEN [h EXCEPT !.index = @ + 1]
             ELSE LET n == IF kind = "address" THEN h.index + 1 ELSE h.index
                  IN  IF n = 0 THEN Respond(h, 200, TRUE)
                      ELSE [h EXCEPT !.index = n, !.pc = "metadata", !.i = 0]
  /\ UNCHANGED <<runVars, callers, formatter, runs, response, variants>>

\* handler: one chunk of the metadata loop: the aggregate3 request and, when
\* it throws, the three reads of each item of the chunk.
HandlerMetadata ==
  /\ handler.pc = "metadata"
  /\ \E threw \in BOOLEAN :
       LET size == Min(batchSize, handler.index - handler.i)
           h == [handler EXCEPT !.remote = @ + 1 + (IF threw THEN 3 * size ELSE 0)]
       IN  handler' = IF handler.i + batchSize < handler.index
                      THEN [h EXCEPT !.i = @ + batchSize]
                      ELSE [h EXCEPT !.i = 0, !.pc = "quantities"]
  /\ UNCHANGED <<runVars, callers, formatter, runs, response, variants>>

\* handler: one chunk of the positions loop, and after the last one the
\* join and res.json(report).
HandlerQuantities ==
  /\ handler.pc = "quantities"
  /\ \E threw \in BOOLEAN :
       LET size == Min(positionBatchSize, handler.index - handler.i)
           h == [handler EXCEPT !.remote = @ + 1 + (IF threw THEN size ELSE 0)]
       IN  handler' = IF handler.i + positionBatchSize < handler.index
                      THEN [h EXCEPT !.i = @ + positionBatchSize]
                      ELSE Respond(h, 200, TRUE)
  /\ UNCHANGED <<runVars, callers, formatter, runs, response, variants>>

NextHandler ==
  \/ HandlerReceive
  \/ HandlerScan
  \/ HandlerMetadata
  \/ HandlerQuantities

SpecHandler == InitHandler /\ [][NextHandler]_vars

(* ------------------- the three variants of the pipeline ---------------- *)

\* The largest of the small registries the variants are applied to.
VariantItems == 2

\* Registry sizes the variants are applied to: the small ones, and one that
\* spans three metadata chunks and two quantity chunks.
VariantSizes == (0..VariantItems) \cup {positionBatchSize + 1}

\* The remote state at one height, every call to which succeeds: the
\* registry holds `items` identities and signals its end by endKind; the
\* first item has a null reference when nullRef; the quantity held in the
\* token of the last item is zero when flat; epoch tells the quantities of
\* one height from those of another.
Snapshots ==
  [items : VariantSizes, endKind : {"null", "revert"}, nullRef : BOOLEAN,
   flat : BOOLEAN, epoch : {0, 1}]

\* A remote state: what the contracts hold at the latest block and what
\* they held at the pinned heights (the registry signals its end the same
\* way at every height; the latest block is epoch 0).
Remotes ==
  {r \in [latest : Snapshots, past : Snapshots] :
     r.latest.endKind = r.past.endKind /\ r.latest.epoch = 0}

\* The snapshot a request reads: the latest block without a blockTag, the
\* pinned height with one.
SnapshotAt(remote, tag) == IF tag = null THEN remote.latest ELSE remote.past

\* What the contracts of a snapshot answer to a call.
SnapshotValue(s, call) ==
  CASE call.callData.method = "underlying" ->
         IF s.nullRef /\ call.target = RegistryItem(0)
         THEN ZeroAddress
         ELSE RemoteValue(call)
    [] call.callData.method = "positions" ->
         LET last == RegistryItem(s.items - 1)
             t == call.callData.params[2]
         IN  IF s.flat /\ t \in {last, RemoteValue(createContractCall(last, "underlying", <<>>))}
             THEN 0
             ELSE RemoteValue(call) + s.epoch
    [] OTHER -> RemoteValue(call)

\* The aggregator's returnData for a list of calls, and the answers to
\* direct reads, against a snapshot: every call succeeds.
SnapshotAnswers(s, reqCalls) ==
  [p \in 1..Len(reqCalls) |->
     [success |-> TRUE,
      returnData |-> Bytes(ReturnType(reqCalls[p]), SnapshotValue(s, reqCalls[p]))]]

\* creditVault.allLPTokens(idx, { blockTag }) against a snapshot.
SnapshotRead(s, idx) == allLPTokens(idx, IF idx < s.items THEN "address" ELSE s.endKind)

\* The offset of the chunk that holds the p-th item (1-based) of a list
\* processed in chunks of `size`: for (let i = 0; i < n; i += size).
ChunkOffset(p, size) == ((p - 1) \div size) * size

\* ---- the library fetcher (PMMPositionFetcher of the package) ----

\* getAllLPTokens against a snapshot.
RECURSIVE LibraryScan(_, _, _)
LibraryScan(s, tokens, idx) ==
  LET st == ScanStep(tokens, idx, SnapshotRead(s, idx))
  IN  IF st.break THEN st.lpTokens ELSE LibraryScan(s, st.lpTokens, st.index)

\* batchGetUnderlyingTokens when every aggregate request returns: the calls
\* of each chunk go through batchCallWithRetry (no result fails, so no retry
\* is issued) and the returnData are processed in triplets.
LibraryTokenData(s, items) ==
  [p \in 1..Len(items) |->
     LET off == ChunkOffset(p, batchSize)
         batch == Slice(items, off, off + batchSize)
         reqCalls == MetaCalls(batch)
         res == batchCall(reqCalls, SnapshotAnswers(s, reqCalls))
         j == p - off
     IN  MetaEntry(batch[j], res[3 * j - 2], res[3 * j - 1], res[3 * j])]

\* batchGetPositions when every aggregate request returns.
LibraryPositions(s, owner, tokenAddresses) ==
  [p \in 1..Len(tokenAddresses) |->
     LET off == ChunkOffset(p, positionBatchSize)
         batch == Slice(tokenAddresses, off, off + positionBatchSize)
         reqCalls == PosCalls(batch, owner)
         res == batchCall(reqCalls, SnapshotAnswers(s, reqCalls))
     IN  PosEntry(batch[p - off], res[p - off])]

\* listPmmPositions of the library: the scan reads carry
\* { blockTag: targetBlock }, the aggregate requests the options
\* Multicall3.aggregate3 builds from targetBlock.
LibraryReport(remote, owner, cid, block) ==
  LET lp == LibraryScan(SnapshotAt(remote, blockTag(block)), <<>>, 0)
      s == SnapshotAt(remote, aggregateBlockTag(block))
      td == LibraryTokenData(s, lp)
      pr == LibraryPositions(s, owner, underlyingAddresses(td))
  IN  IF Len(lp) = 0
      THEN Report(cid, owner, block, <<>>, 0, 0)
      ELSE Report(cid, owner, block, JoinFrom(td, pr, 1), Len(td), 0)

\* ---- the browser fetcher (src/web/main.js) ----

\* getAllLPTokens of the browser fetcher: one iteration of the while loop.
BrowserScanStep(tokens, idx, out) ==
  IF out.threw
  THEN [lpTokens |-> tokens, index |-> idx, break |-> TRUE]
  ELSE IF out.value # ZeroAddress
       THEN [lpTokens |-> Append(tokens, out.value),
             index |-> idx + 1,
             break |-> idx + 1 > 1000]
       ELSE [lpTokens |-> tokens, index |-> idx, break |-> TRUE]

RECURSIVE BrowserScan(_, _, _)
BrowserScan(s, tokens, idx) ==
  LET st == BrowserScanStep(tokens, idx, SnapshotRead(s, idx))
  IN  IF st.break THEN st.lpTokens ELSE BrowserScan(s, st.lpTokens, st.index)

\* The entry pushed when a read failed, did not decode or gave the zero
\* address: the LP token stands for itself, with 18 decimals and symbol 'LP'.
LPAsUnderlying(lpTokenAddress) ==
  [lpTokenAddress |-> lpTokenAddress,
   underlyingAddress |-> lpTokenAddress,
   decimals |-> 18,
   symbol |-> "LP",
   isLPToken |-> FALSE]

\* The entry the browser fetcher and the handler push for one LP token from
\* the three {success, returnData} entries of aggregate3 (the same statements
\* in both files).
DecodedEntry(lpTokenAddress, underlyingResult, decimalsResult, symbolResult) ==
  IF underlyingResult.success /\ decimalsResult.success /\ symbolResult.success
  THEN IF /\ Decodes("address", underlyingResult.returnData)
          /\ Decodes("uint8", decimalsResult.returnData)
          /\ Decodes("string", symbolResult.returnData)
       THEN IF underlyingResult.returnData.value # ZeroAddress
            THEN [lpTokenAddress |-> lpTokenAddress,
                  underlyingAddress |-> underlyingResult.returnData.value,
                  decimals |-> decimalsResult.returnData.value,
                  symbol |-> symbolResult.returnData.value,
                  isLPToken |-> TRUE]
            ELSE LPAsUnderlying(lpTokenAddress)
       ELSE LPAsUnderlying(lpTokenAddress)
  ELSE LPAsUnderlying(lpTokenAddress)

\* The positions entry both files push for one token from its
\* {success, returnData} entry.
DecodedPosition(tokenAddress, result) ==
  IF result.success /\ Decodes("int256", result.returnData)
  THEN [tokenAddress |-> tokenAddress,
        position |-> toString(result.returnData.value),
        success |-> TRUE]
  ELSE [tokenAddress |-> tokenAddress, position |-> <<"0">>, success |-> FALSE]

\* batchGetUnderlyingTokens of the browser fetcher when every
\* aggregate3.staticCall returns.
BrowserTokenData(s, lpTokenAddresses) ==
  [p \in 1..Len(lpTokenAddresses) |->
     LET off == ChunkOffset(p, 10)
         batch == Slice(lpTokenAddresses, off, off + 10)
         returnData == SnapshotAnswers(s, MetaCalls(batch))
         j == p - off
     IN  DecodedEntry(batch[j], returnData[3 * j - 2], returnData[3 * j - 1], returnData[3 * j])]

\* batchGetPositions of the browser fetcher when every aggregate3.staticCall
\* returns.
BrowserPositions(s, traderAddress, tokenAddresses) ==
  [p \in 1..Len(tokenAddresses) |->
     LET off == ChunkOffset(p, 20)
         batch == Slice(tokenAddresses, off, off + 20)
         returnData == SnapshotAnswers(s, PosCalls(batch, traderAddress))
     IN  DecodedPosition(batch[p - off], returnData[p - off])]

\* The join loop and the report, the same statements in the browser fetcher
\* and in the handler: positionData is pushed for each index whose quantity
\* entry is successful and not '0'. An empty scan is answered before the
\* loops with positions [] and totalTokens 0, which is what the loops give.
JoinedReport(cid, owner, block, td, pr) ==
  LET kept == SelectSeq([q \in 1..Len(td) |-> q],
                        LAMBDA q : pr[q].success /\ pr[q].position # <<"0">>)
      positions ==
        [r \in 1..Len(kept) |->
           LET t == td[kept[r]]
               position == BigInt(pr[kept[r]].position)
           IN  [tokenAddress |-> t.underlyingAddress,
                tokenSymbol |-> t.symbol,
                lpTokenAddress |-> IF t.isLPToken THEN t.lpTokenAddress ELSE null,
                position |-> toString(position),
                positionFormatted |-> formatUnits(position, t.decimals),
                decimals |-> t.decimals]]
  IN  [returned |-> TRUE,
       chainId |-> cid,
       chainName |-> chainName(cid),
       pmmAddress |-> owner,
       targetBlock |-> OrLatest(block),
       positions |-> positions,
       summary |-> [totalTokens |-> Len(td),
                    tokensWithPositions |-> Len(positions),
                    fetchTime |-> 0]]

\* listPmmPositions of the browser fetcher: every read and every aggregate
\* request carries { blockTag: targetBlock }.
BrowserReport(remote, owner, cid, block) ==
  LET s == SnapshotAt(remote, blockTag(block))
      lp == BrowserScan(s, <<>>, 0)
      td == BrowserTokenData(s, lp)
      pr == BrowserPositions(s, owner, [p \in 1..Len(td) |-> td[p].underlyingAddress])
  IN  JoinedReport(cid, owner, block, td, pr)

\* ---- the HTTP handler (src/api/pmm-positions.js) ----

\* The scan loop of the handler: one iteration; an error that is not a
\* revert leaves the try block.
HandlerScanStep(tokens, idx, out) ==
  IF out.threw
  THEN [lpTokens |-> tokens, index |-> idx, break |-> IsRevertMessage(out.message),
        threw |-> ~IsRevertMessage(out.message)]
  ELSE IF out.value # ZeroAddress
       THEN [lpTokens |-> Append(tokens, out.value),
             index |-> idx + 1,
             break |-> idx + 1 > 1000,
             threw |-> FALSE]
       ELSE [lpTokens |-> tokens, index |-> idx, break |-> TRUE, threw |-> FALSE]

RECURSIVE HandlerScanOf(_, _, _)
HandlerScanOf(s, tokens, idx) ==
  LET st == HandlerScanStep(tokens, idx, SnapshotRead(s, idx))
  IN  IF st.break \/ st.threw THEN st.lpTokens ELSE HandlerScanOf(s, st.lpTokens, st.index)

\* The catch branch of the metadata loop: the three reads of one item, one
\* after the other; a read that fails gives the fallback entry.
HandlerSerialEntry(lpTokenAddress, answers) ==
  IF \A k \in 1..3 : answers[k].success
                     /\ Decodes(ReturnType(MetaCalls(<<lpTokenAddress>>)[k]),
                                answers[k].returnData)
  THEN IF answers[1].returnData.value # ZeroAddress
       THEN [lpTokenAddress |-> lpTokenAddress,
             underlyingAddress |-> answers[1].returnData.value,
             decimals |-> answers[2].returnData.value,
             symbol |-> answers[3].returnData.value,
             isLPToken |-> TRUE]
       ELSE LPAsUnderlying(lpTokenAddress)
  ELSE LPAsUnderlying(lpTokenAddress)

\* The metadata loop of the handler; multicall.aggregate3 is invoked as a
\* contract method, not through staticCall, so the request itself may be
\* refused (threw) although every call would succeed: the catch branch then
\* reads the items of the chunk one by one.
HandlerTokenData(s, lp, threw) ==
  [p \in 1..Len(lp) |->
     LET off == ChunkOffset(p, 10)
         batch == Slice(lp, off, off + 10)
         returnData == SnapshotAnswers(s, MetaCalls(batch))
         j == p - off
     IN  IF threw
         THEN HandlerSerialEntry(batch[j], SnapshotAnswers(s, MetaCalls(<<batch[j]>>)))
         ELSE DecodedEntry(batch[j], returnData[3 * j - 2], returnData[3 * j - 1],
                           returnData[3 * j])]

\* The positions loop of the handler, with its catch branch
\* (creditVault.positions read item by item).
HandlerPositions(s, owner, tokenAddresses, threw) ==
  [p \in 1..Len(tokenAddresses) |->
     LET off == ChunkOffset(p, 20)
         batch == Slice(tokenAddresses, off, off + 20)
         returnData == SnapshotAnswers(s, PosCalls(batch, owner))
         tokenAddress == batch[p - off]
     IN  IF threw
         THEN DecodedPosition(tokenAddress,
                              SnapshotAnswers(s, PosCalls(<<tokenAddress>>, owner))[1])
         ELSE DecodedPosition(tokenAddress, returnData[p - off])]

\* The report the handler sends with res.json: every read and every
\* aggregate request carries { blockTag: targetBlock }.
HandlerReport(remote, owner, cid, block, metaThrew, posThrew) ==
  LET s == SnapshotAt(remote, blockTag(block))
      lp == HandlerScanOf(s, <<>>, 0)
      td == HandlerTokenData(s, lp, metaThrew)
      pr == HandlerPositions(s, owner, [p \in 1..Len(td) |-> td[p].underlyingAddress],
                             posThrew)
  IN  JoinedReport(cid, owner, block, td, pr)

\* One input and one remote state none of whose calls fails, to which the
\* three variants are about to be applied.
InitVariants ==
  /\ NoRun
  /\ callers = NoCallers
  /\ formatter = NoFormatter
  /\ handler = NoHandler
  /\ runs = NoRuns
  /\ response = NoResponse
  /\ variants \in [on : {TRUE}, remote : Remotes, owner : {GoodAddress, OtherAddress},
                    chainId : {56}, targetBlock : BlockInputs,
                    library : {NoReport}, browser : {NoReport}, handler : {NoReport}]

\* await fetcher.listPmmPositions(owner, chainId, targetBlock) on the library
LibraryRun ==
  /\ variants.on /\ ~variants.library.returned
  /\ variants' = [variants EXCEPT !.library =
                    LibraryReport(variants.remote, variants.owner, variants.chainId,
                                  variants.targetBlock)]
  /\ UNCHANGED <<runVars, callers, formatter, handler, runs, response>>

\* await fetcher.listPmmPositions(owner, chainId, targetBlock) in the browser
BrowserRun ==
  /\ variants.on /\ ~variants.browser.returned
  /\ variants' = [variants EXCEPT !.browser =
                    BrowserReport(variants.remote, variants.owner, variants.chainId,
                                  variants.targetBlock)]
  /\ UNCHANGED <<runVars, callers, formatter, handler, runs, response>>

\* POST { pmmAddress, chainId, targetBlock } to the handler
HandlerRun ==
  /\ variants.on /\ ~variants.handler.returned
  /\ \E metaThrew \in BOOLEAN, posThrew \in BOOLEAN :
       variants' = [variants EXCEPT !.handler =
                      HandlerReport(variants.remote, variants.owner, variants.chainId,
                                    variants.targetBlock, metaThrew, posThrew)]
  /\ UNCHANGED <<runVars, callers, formatter, handler, runs, response>>

NextVariants ==
  \/ LibraryRun
  \/ BrowserRun
  \/ HandlerRun

SpecVariants == InitVariants /\ [][NextVariants]_vars

(* ------------------------------ properties ----------------------------- *)

ScanEnded == pc \notin {"start", "connect", "scan"} /\ Len(reads) > 0

LastRead == reads[Len(reads)]

\* C1: in every run that returns a report, whatever calls failed, whatever
\* aggregate requests failed and whatever the retries gave, tokenData has one
\* entry per discovered item and positionResults one entry per tokenData
\* entry (and stage 3 never starts on a shorter or longer tokenData).
C1_IndexAlignment ==
  /\ (pc = "done" /\ report.returned) =>
       /\ Len(tokenData) = Len(lpTokens)
       /\ Len(positionResults) = Len(tokenData)
  /\ stage = "pos" => Len(tokenData) = Len(lpTokens)

C1_Witness ==
  /\ pc = "done" /\ report.returned
  /\ Len(lpTokens) > positionBatchSize
  /\ calls.aggregateFailed > 0
  /\ Len(positionResults) = Len(lpTokens)

\* C2: when the aggregate request of a chunk fails outright, the run does
\* not fail: the chunk is handled item by item, every step of the catch
\* branch issuing the serial reads of one item and pushing exactly one entry
\* for it, so that the chunk contributes one entry per item; the run still
\* returns a report covering every item.
C2_SerialInv ==
  /\ calls.aggregateFailed > 0 => pc # "failed"
  /\ (pc = "serial" /\ stage = "meta") =>
       Len(tokenData) = i + serialIdx /\ serialIdx < Len(Batch)
  /\ (pc = "serial" /\ stage = "pos") =>
       Len(positionResults) = i + serialIdx /\ serialIdx < Len(Batch)
  /\ (pc = "done" /\ calls.aggregateFailed > 0) =>
       /\ report.returned
       /\ report.summary.totalTokens = Len(lpTokens)

C2_SerialStep ==
  pc = "serial" =>
    /\ stage = "meta" =>
         /\ Len(tokenData') = Len(tokenData) + 1
         /\ SubSeq(tokenData', 1, Len(tokenData)) = tokenData
         /\ tokenData'[Len(tokenData')].lpTokenAddress = lpTokens[i + serialIdx + 1]
         /\ calls'.serial = calls.serial + 3
    /\ stage = "pos" =>
         /\ Len(positionResults') = Len(positionResults) + 1
         /\ SubSeq(positionResults', 1, Len(positionResults)) = positionResults
         /\ positionResults'[Len(positionResults')].tokenAddress
              = tokenData[i + serialIdx + 1].underlyingAddress
         /\ calls'.serial = calls.serial + 1
    /\ calls'.aggregate = calls.aggregate
    /\ pc' # "serial" =>
         /\ stage = "meta" => Len(tokenData') = i + Len(Batch)
         /\ stage = "pos" => Len(positionResults') = i + Len(Batch)

C2_AggregateFailureAbsorbed == []C2_SerialInv /\ [][C2_SerialStep]_vars

C2_Witness ==
  /\ pc = "done" /\ report.returned
  /\ calls.aggregateFailed = 2
  /\ calls.serial = 3 * Len(lpTokens) + Len(lpTokens)

\* C3: a scan read that fails with an error that is not the revert signature
\* makes the run fail; it never ends the scan silently.
C3_GenericErrorAborts ==
  (Len(reads) > 0 /\ LastRead.kind = "error") => pc = "failed"

\* C4: the scan never reads an index of 1000 or above and returns at most
\* 1000 identities.
C4_ScanStopsAtCap ==
  /\ \A p \in 1..Len(reads) : reads[p].index < 1000
  /\ Len(lpTokens) <= 1000

\* C5: the scan reads the indices 0, 1, 2, ... in order, one read per index,
\* issues no read after a null identity or a revert, and when it ended on a
\* null identity or a revert at index k its result is exactly the identities
\* read at the indices 0..k-1, in index order.
C5_ScanPrefix ==
  /\ \A p \in 1..Len(reads) : reads[p].index = p - 1
  /\ \A p \in 1..(Len(reads) - 1) : reads[p].kind = "address"
  /\ Len(reads) = calls.read
  /\ (ScanEnded /\ LastRead.kind \in {"null", "revert"}) =>
       /\ Len(lpTokens) = LastRead.index
       /\ \A p \in 1..Len(lpTokens) :
            lpTokens[p] = reads[p].value /\ lpTokens[p] # 0

C5_Witness ==
  /\ ScanEnded
  /\ LastRead.kind = "revert"
  /\ LastRead.index = 2
  /\ lpTokens = <<reads[1].value, reads[2].value>>

\* C6: when the read at index 0 returns the null identity, the run returns
\* the report with no positions and a zero summary, and no metadata or
\* quantity request (aggregate or serial) is ever issued.
C6_EmptyRegistry ==
  (Len(reads) > 0 /\ reads[1].kind = "null") =>
    /\ pc = "done"
    /\ lpTokens = <<>>
    /\ report.returned
    /\ report.positions = <<>>
    /\ report.summary.totalTokens = 0
    /\ report.summary.tokensWithPositions = 0
    /\ calls.aggregate = 0
    /\ calls.serial = 0

C6_Witness ==
  /\ pc = "done"
  /\ Len(reads) = 1
  /\ reads[1].kind = "null"
  /\ report.returned

\* C7: with a malformed owner address or an unsupported network id the run
\* fails with an error and never issues a remote request of any kind.
C7_ValidationFirst ==
  (pmmAddress = BadAddress \/ chainId \notin {1, 56, 42161, 8453}) =>
    /\ pc \in {"start", "failed"}
    /\ pc = "failed" => error \in {"Invalid PMM address", "Unsupported chain ID"}
    /\ calls.probe = 0 /\ calls.read = 0 /\ calls.aggregate = 0 /\ calls.serial = 0
    /\ ~report.returned

C7_Witness ==
  /\ pc = "failed"
  /\ pmmAddress = BadAddress
  /\ chainId = 56
  /\ error = "Invalid PMM address"

\* The indices whose current result is not successful, and the r-th of them.
FailedIndices == {p \in 1..Len(results) : ~results[p].success}
NthFailed(r) == CHOOSE p \in FailedIndices : Cardinality({q \in FailedIndices : q < p}) = r - 1

\* A result that is an outcome of the given call.
IsOutcomeOf(result, call) ==
  /\ result.call = call
  /\ \E kind \in {"ok"} \cup FaultKinds(call) :
       /\ result.success = Answer(call, kind).success
       /\ result.data = Answer(call, kind).returnData

\* C8: batchCallWithRetry submits all the calls once; each retry round
\* re-submits exactly the calls whose current result is not successful, in
\* their original order, and writes each outcome back at the call's own
\* index, leaving the other results alone; the results always have the
\* length of contractCalls and the result at i is an outcome of call i.
C8_ResultsInv ==
  pc \in {"bcLoop", "bcReturned"} =>
    /\ Len(results) = Len(contractCalls)
    /\ \A p \in 1..Len(results) : IsOutcomeOf(results[p], contractCalls[p])
    /\ requests[1].calls = contractCalls

C8_RetryStep ==
  (pc = "bcLoop" /\ Len(requests') = Len(requests) + 1) =>
    LET sent == requests'[Len(requests')].calls
    IN  /\ Len(sent) = Cardinality(FailedIndices)
        /\ \A r \in 1..Len(sent) : sent[r] = contractCalls[NthFailed(r)]
        /\ pc' = "bcLoop" =>
             /\ Len(results') = Len(results)
             /\ \A p \in 1..Len(results) :
                  IF p \in FailedIndices
                  THEN IsOutcomeOf(results'[p], contractCalls[p])
                  ELSE results'[p] = results[p]

C8_RetryWritesBack == []C8_ResultsInv /\ [][C8_RetryStep]_vars

C8_Witness ==
  /\ pc = "bcReturned"
  /\ Len(contractCalls) = 3
  /\ Len(requests) = 3
  /\ Len(requests[2].calls) = 2
  /\ requests[3].calls = <<contractCalls[3]>>
  /\ results[3].success /\ results[3].data.value = RemoteValue(contractCalls[3])

\* C9: batchCallWithRetry raises only when every aggregate request of the
\* invocation failed; once the initial request returned results, a failing
\* retry request neither raises nor loses them.
C9_RaisesOnlyWhenAllAttemptsFail ==
  pc = "bcThrown" => \A r \in 1..Len(requests) : requests[r].threw

\* C10: stage 2 holds exactly one entry per item, in item order; the entry is
\* the decoded {reference, scale, label} with isLPToken = true when the three
\* answers it was built from succeeded, decoded, and gave a non-null
\* reference, and the fallback {the item itself, 18, 'LP', false} otherwise.
C10_Derived(s) ==
  /\ \A q \in 1..3 : s[q].success
  /\ s[1].data.type = "address" /\ s[2].data.type = "uint8" /\ s[3].data.type = "string"
  /\ s[1].data.value # 0

C10_MetadataPolicy ==
  /\ Len(tokenData) <= Len(lpTokens)
  /\ Len(subResults) = Len(tokenData)
  /\ (stage = "pos" \/ (pc = "done" /\ report.returned)) => Len(tokenData) = Len(lpTokens)
  /\ \A p \in 1..Len(tokenData) :
       IF C10_Derived(subResults[p])
       THEN tokenData[p] = [lpTokenAddress |-> lpTokens[p],
                            underlyingAddress |-> subResults[p][1].data.value,
                            decimals |-> subResults[p][2].data.value,
                            symbol |-> subResults[p][3].data.value,
                            isLPToken |-> TRUE]
       ELSE tokenData[p] = [lpTokenAddress |-> lpTokens[p],
                            underlyingAddress |-> lpTokens[p],
                            decimals |-> 18,
                            symbol |-> "LP",
                            isLPToken |-> FALSE]

C10_Witness ==
  /\ pc = "done"
  /\ Len(tokenData) = 2
  /\ tokenData[1].isLPToken /\ tokenData[1].underlyingAddress = 101
  /\ ~tokenData[2].isLPToken
  /\ subResults[2][1].success /\ subResults[2][1].data = Bytes("address", 0)

\* An answer the remote side can give to the given call.
IsAnswerTo(sub, call) ==
  \E kind \in {"ok"} \cup FaultKinds(call) :
    /\ sub.success = Answer(call, kind).success
    /\ sub.data.type = Answer(call, kind).returnData.type
    /\ sub.data.value = Answer(call, kind).returnData.value

\* The quantity answer is usable: the call succeeded and its bytes decode.
QuantityRead(sub) == sub.success /\ sub.data.type = "int256"

C12_FailedReadsMarkedFailed ==
  /\ (pc = "failed" => calls.aggregate = 0 /\ calls.serial = 0)
  /\ \A p \in 1..Len(positionResults) :
       /\ ~(positionSubs[p].success /\ positionSubs[p].data.type = "int256") =>
            /\ positionResults[p].success = FALSE
            /\ positionResults[p].position = <<"0">>
       /\ positionResults[p].success =>
            (positionSubs[p].success /\ positionSubs[p].data.type = "int256")

\* The indices the join keeps, and the r-th of them in discovery order.
KeptIndices ==
  {p \in 1..Len(positionResults) :
     positionResults[p].success /\ BigInt(positionResults[p].position) # 0}
NthKept(r) == CHOOSE p \in KeptIndices : Cardinality({q \in KeptIndices : q < p}) = r - 1

\* C13: the report has an entry for index p exactly when the quantity entry
\* at p is successful with a non-zero quantity; the entries are in discovery
\* order; the entry for p carries the reference, label and scale of the
\* metadata entry at p and the raw quantity of the quantity entry at p.
C13_JoinByIndex ==
  (pc = "done" /\ report.returned) =>
    /\ Len(report.positions) = Cardinality(KeptIndices)
    /\ \A r \in 1..Len(report.positions) :
         LET p == NthKept(r)
         IN  /\ report.positions[r].tokenAddress = tokenData[p].underlyingAddress
             /\ report.positions[r].tokenSymbol = tokenData[p].symbol
             /\ report.positions[r].decimals = tokenData[p].decimals
             /\ report.positions[r].position = positionResults[p].position
             /\ report.positions[r].lpTokenAddress
                  = (IF tokenData[p].isLPToken THEN lpTokens[p] ELSE -1)

C13_Witness ==
  /\ pc = "done" /\ report.returned
  /\ Len(tokenData) = 2
  /\ positionResults[1].success /\ positionResults[1].position = <<"0">>
  /\ Len(report.positions) = 1
  /\ report.positions[1].tokenAddress = tokenData[2].underlyingAddress
  /\ report.positions[1].position = <<"1", "1", "0", "2">>
  /\ report.positions[1].lpTokenAddress = 2

\* C14: in every returned report totalTokens is the number of items the scan
\* discovered, tokensWithPositions is the number of entries of positions and
\* is at most totalTokens; when the owner's quantity is zero on every item,
\* positions is empty and tokensWithPositions is 0 while totalTokens is
\* still the item count.
C14_SummaryCounts ==
  (pc = "done" /\ report.returned) =>
    /\ report.summary.totalTokens
         = Cardinality({p \in 1..Len(reads) : reads[p].kind = "address"})
    /\ report.summary.tokensWithPositions = Len(report.positions)
    /\ report.summary.tokensWithPositions <= report.summary.totalTokens
    /\ (\A p \in 1..Len(positionSubs) :
          positionSubs[p].success /\ positionSubs[p].data = [type |-> "int256", value |-> 0])
        => /\ report.positions = <<>>
           /\ report.summary.tokensWithPositions = 0

C14_Witness ==
  /\ pc = "done" /\ report.returned
  /\ Len(positionSubs) = 2
  /\ \A p \in 1..2 : positionSubs[p].data = [type |-> "int256", value |-> 0]
  /\ report.positions = <<>>
  /\ report.summary.totalTokens = 2
  /\ report.summary.tokensWithPositions = 0

\* The second invocation has the inputs of the first, which returned.
SameRunAgain ==
  /\ previous.ran
  /\ previous.outcome = "done"
  /\ pmmAddress = previous.pmmAddress
  /\ chainId = previous.chainId

\* C15 (as stated): two runs with the same inputs against an unchanged remote
\* state return identical reports, field for field, including the summary.
C15_IdenticalReports ==
  (SameRunAgain /\ pc = "done") => report = previous.report

\* C15 (amended): two runs with the same inputs against an unchanged remote
\* state both return, and their reports are identical in every field other
\* than summary.fetchTime.
C15_IdenticalButFetchTime ==
  SameRunAgain =>
    /\ pc # "failed"
    /\ pc = "done" =>
         [report EXCEPT !.summary.fetchTime = 0]
           = [previous.report EXCEPT !.summary.fetchTime = 0]

C15_Witness ==
  /\ SameRunAgain /\ pc = "done"
  /\ Len(report.positions) = 2
  /\ report.positions = previous.report.positions
  /\ report.summary.totalTokens = previous.report.summary.totalTokens
  /\ report.summary.fetchTime # previous.report.summary.fetchTime

\* The providers and the number of probes when the current invocation began.
StartProviders == IF previous.ran THEN previous.providers ELSE [c \in {1, 56, 42161, 8453} |-> 0]
StartProbes == IF previous.ran THEN previous.probes ELSE 0

PastConnect == pc \in {"scan", "bcInitial", "bcLoop", "serial", "done"}
ProbeFailed == pc = "failed" /\ error \in {"Connection timeout", "could not detect network"}

\* C17: getProvider memoizes one connection per network. An invocation whose
\* network has no stored connection issues exactly one probe; if the probe
\* succeeds the connection is stored, and an invocation that finds a stored
\* connection uses that same connection without probing; if the probe errors
\* or times out the run fails, nothing is stored for the network, no scan or
\* batch call is issued, and the next invocation for the network probes
\* again. The connections of the other networks are left alone.
C17_ProviderMemoized ==
  /\ pc \in {"start", "connect"} => calls.probe = StartProbes
  /\ (PastConnect \/ ProbeFailed) =>
       calls.probe = StartProbes + (IF StartProviders[chainId] # 0 THEN 0 ELSE 1)
  /\ PastConnect =>
       /\ providers[chainId] # 0
       /\ StartProviders[chainId] # 0 => providers[chainId] = StartProviders[chainId]
  /\ ProbeFailed =>
       /\ providers[chainId] = 0
       /\ calls.read = 0 /\ calls.aggregate = 0 /\ calls.serial = 0
       /\ ~report.returned
  /\ \A c \in {1, 56, 42161, 8453} \ {chainId} : providers[c] = StartProviders[c]

C17_Witness ==
  /\ previous.ran /\ previous.outcome = "failed"
  /\ previous.probes = 1 /\ previous.providers[56] = 0
  /\ chainId = 56 /\ pc = "done"
  /\ calls.probe = 2 /\ providers[56] = 2

RECURSIVE Pow10(_)
Pow10(n) == IF n = 0 THEN 1 ELSE 10 * Pow10(n - 1)

\* The fixed-point rendering of value with exactly `decimals` fractional
\* digits: the sign, the whole part, and, when decimals > 0, the point and
\* the remainder written on `decimals` digits.
FixedRendering(value, decimals) ==
  LET magnitude == IF value < 0 THEN -value ELSE value
      whole == NatToString(magnitude \div Pow10(decimals))
      fraction == NatToString(magnitude % Pow10(decimals))
      sign == IF value < 0 THEN <<"-">> ELSE <<>>
  IN  IF decimals = 0 THEN sign \o whole
      ELSE sign \o whole \o <<".">>
             \o [k \in 1..(decimals - Len(fraction)) |-> "0"] \o fraction

\* The parts of a decimal string.
Unsigned(s) == IF Len(s) > 0 /\ s[1] = "-" THEN Tail(s) ELSE s
Points(s) == {k \in 1..Len(s) : s[k] = "."}
WholeDigits(s) ==
  LET u == Unsigned(s)
  IN  IF Points(u) = {} THEN u ELSE SubSeq(u, 1, (CHOOSE k \in Points(u) : TRUE) - 1)
FractionDigits(s) ==
  LET u == Unsigned(s)
  IN  IF Points(u) = {} THEN <<>> ELSE SubSeq(u, (CHOOSE k \in Points(u) : TRUE) + 1, Len(u))

\* The raw quantity a decimal string with at most `decimals` fractional
\* digits stands for.
parseUnits(s, decimals) ==
  LET fraction == FractionDigits(s)
      magnitude == ParseNat(WholeDigits(s) \o fraction
                              \o [k \in 1..(decimals - Len(fraction)) |-> "0"])
  IN  IF Len(s) > 0 /\ s[1] = "-" THEN -magnitude ELSE magnitude

\* C16 as stated: the formatted quantity is the fixed-point rendering of the
\* raw quantity with exactly `scale` fractional digits, which is what makes
\* format(parse(s, scale), scale) = s hold for every decimal string s with
\* `scale` fractional digits; format(-1500, 3) = "-1.500".
C16_ExactlyScaleDigits ==
  formatter.done =>
    formatter.formatted = FixedRendering(formatter.value, formatter.decimals)

\* C16, amended: the formatted quantity is the exact rendering of the signed
\* raw quantity, sign preserved and no rounding, with the trailing zeros of
\* the fraction trimmed down to at least one fractional digit (and no point
\* when scale is 0), so that parse(format(v, scale), scale) = v for every raw
\* quantity v and format(parse(s, scale), scale) = s for every string s in
\* that trimmed form; format(-1500, 3) = "-1.5".
C16_ExactTrimmedRendering ==
  formatter.done =>
    LET s == formatter.formatted
        v == formatter.value
        d == formatter.decimals
        whole == WholeDigits(s)
        fraction == FractionDigits(s)
    IN  /\ Len(s) > 0
        /\ (s[1] = "-") <=> (v < 0)
        /\ \A k \in 1..Len(Unsigned(s)) :
             Unsigned(s)[k] = "." \/ \E c \in 1..10 : DigitChars[c] = Unsigned(s)[k]
        /\ Len(whole) >= 1
        /\ whole[1] = "0" => Len(whole) = 1
        /\ d = 0 => Points(s) = {}
        /\ d > 0 =>
             /\ Cardinality(Points(s)) = 1
             /\ Len(fraction) \in 1..d
             /\ fraction[Len(fraction)] = "0" => Len(fraction) = 1
        /\ parseUnits(s, d) = v
        /\ formatUnits(parseUnits(s, d), d) = s
        /\ (v = -1500 /\ d = 3) => s = <<"-", "1", ".", "5">>

C16_Witness ==
  /\ formatter.done
  /\ formatter.value = -1500 /\ formatter.decimals = 3
  /\ formatter.formatted = <<"-", "1", ".", "5">>

\* C18: callers of getProvider for the same network that hold a connection,
\* being probed or handed back, hold the same one: concurrent first calls
\* do not create and probe a connection each.
C18_OneConnectionPerNetwork ==
  \A a, b \in DOMAIN callers :
    (/\ callers[a].chainId = callers[b].chainId
     /\ callers[a].pc \in {"probing", "returned"}
     /\ callers[b].pc \in {"probing", "returned"})
    => callers[a].provider = callers[b].provider

CeilDiv(n, d) == (n + d - 1) \div d

\* Nothing failed in the run: no remote answer was irregular and the scan
\* ended on the registry's end-of-list signal.
NoFailure ==
  /\ ~env.script.on
  /\ budget = env.faults
  /\ Len(reads) > 0 /\ reads[Len(reads)].kind \in {"null", "revert"}

\* C19: a run in which nothing fails issues, for its n discovered items,
\* exactly ceil(n/10) aggregate requests in the metadata stage and exactly
\* ceil(n/20) in the quantity stage, no other aggregate request and no serial
\* per-item call; for 25 items that is 3 and 2.
C19_AggregateCounts ==
  (pc = "done" /\ NoFailure) =>
    /\ calls.aggregateMeta = CeilDiv(Len(lpTokens), 10)
    /\ calls.aggregatePos = CeilDiv(Len(lpTokens), 20)
    /\ calls.aggregate = calls.aggregateMeta + calls.aggregatePos
    /\ calls.aggregateFailed = 0
    /\ calls.serial = 0
    /\ Len(lpTokens) = 25 => calls.aggregateMeta = 3 /\ calls.aggregatePos = 2

C19_Witness ==
  /\ pc = "done" /\ NoFailure /\ report.returned
  /\ Len(lpTokens) = 25
  /\ calls.aggregateMeta = 3 /\ calls.aggregatePos = 2 /\ calls.serial = 0

ScanRunning == pc \in {"start", "connect", "scan"}

C21_OneHeight == calls.blockTags \subseteq {targetBlock}

\* C22: the targetBlock field of the report is 'latest' exactly when the
\* caller passed no height, and otherwise the block number the caller passed.
C22_TargetBlockNamesHeight ==
  report.returned =>
    report.targetBlock = (IF targetBlock = null THEN Latest ELSE BlockNumber(targetBlock))

\* The request lacks pmmAddress or chainId, or its address is malformed, or
\* its chain is unsupported.
InvalidRequest ==
  \/ ~handler.body.present
  \/ handler.body.pmmAddress = "" \/ handler.body.chainId = 0
  \/ handler.body.pmmAddress # GoodAddress
  \/ handler.body.chainId \notin {1, 56, 42161, 8453}

ExpectedStatus ==
  IF handler.method = "OPTIONS" THEN 200
  ELSE IF handler.method # "POST" THEN 405
  ELSE IF InvalidRequest THEN 400
  ELSE IF handler.failed THEN 500
  ELSE 200

\* C23: the handler sends exactly one response per request and its status
\* matches the outcome: 200 for OPTIONS, 405 for another method than POST,
\* 400 and no remote call for a POST with a missing pmmAddress or chainId, a
\* malformed address or an unsupported chain, 500 for a failure after
\* validation, and otherwise 200 with the report.
C23_OneResponseMatchingOutcome ==
  /\ Len(handler.responses) <= 1
  /\ handler.pc = "sent" =>
       /\ Len(handler.responses) = 1
       /\ handler.responses[1].status = ExpectedStatus
       /\ (handler.method = "POST" /\ InvalidRequest) => handler.remote = 0
       /\ handler.responses[1].report
            <=> (handler.method = "POST" /\ handler.responses[1].status = 200)

\* Nothing is memoized on the fetcher.
NothingMemoized ==
  /\ \A c \in DOMAIN providers : providers[c] = 0
  /\ \A c \in DOMAIN contracts : contracts[c] = 0
  /\ \A c \in DOMAIN multicalls : multicalls[c] = 0

\* C24: every call of cleanup() leaves the fetcher with no memoized
\* provider, contract or multicall instance, also when tearing down a
\* provider throws; and the first getProvider call made on the emptied
\* fetcher, for whichever network, creates and probes a connection that is
\* none of those torn down.
C24_CleanupEmptiesFetcher ==
  /\ [][teardown'.count = teardown.count + 1 => NothingMemoized']_vars
  /\ [][(teardown.count > 0 /\ NothingMemoized /\ pc = "connect" /\ pc' # "connect")
          => /\ calls'.probe = calls.probe + 1
             /\ pc' = "scan" =>
                  /\ providers'[chainId] = calls'.probe
                  /\ \A c \in DOMAIN teardown.cleared :
                       teardown.cleared[c] # providers'[chainId]]_vars

C24_Witness ==
  /\ teardown.count = 1 /\ teardown.cleared[56] = 1 /\ teardown.threw = {56}
  /\ previous.ran /\ chainId = 56 /\ pc = "done"
  /\ providers[56] = 2 /\ contracts[56] = 2 /\ multicalls[56] = 2

\* C25: once the caller's deadline has expired the caller is given the
\* timeout error and no report, and the run issues no remote call any more:
\* beyond the requests that were in flight at the expiry (three at most, the
\* joined reads of one item), its number of requests stays what it was.
C25_DeadlineAborts ==
  deadline.expired =>
    /\ CallerOutcome = "timeout"
    /\ TotalRequests <= deadline.requests + 3

\* C27: batchCall returns exactly one result per submitted call, in call
\* order, whatever the aggregator answered, a response with fewer entries
\* than calls included: the result list is as long as the call list.
C27_OneResultPerCall ==
  response.done =>
    /\ Len(response.results) = Len(response.calls)
    /\ \A p \in 1..Len(response.results) : response.results[p].call = response.calls[p]

\* The serial read of one piece of metadata failed: it reverted or its
\* answer does not decode.
SerialReadFailed(sub, type) == ~sub.success \/ ~Decodes(type, sub.data)

\* One step of the catch branch, as the code takes it: the reads of one item
\* are issued (the three metadata reads together), exactly one entry is
\* pushed for the item at the chunk's next position, a failed read turns
\* that entry, and only that entry, into the fallback, and everything pushed
\* earlier is left as it was.
C28_ItemStep ==
  pc = "serial" =>
    /\ stage = "meta" =>
         LET lp == lpTokens[i + serialIdx + 1]
             entry == tokenData'[Len(tokenData')]
             sub == subResults'[Len(subResults')]
         IN  /\ Len(tokenData') = i + serialIdx + 1
             /\ SubSeq(tokenData', 1, Len(tokenData)) = tokenData
             /\ entry.lpTokenAddress = lp
             /\ calls'.serial = calls.serial + 3
             /\ (\/ SerialReadFailed(sub[1], "address")
                 \/ SerialReadFailed(sub[2], "uint8")
                 \/ SerialReadFailed(sub[3], "string")) => entry = FallbackEntry(lp)
             /\ positionResults' = positionResults
    /\ stage = "pos" =>
         LET token == tokenData[i + serialIdx + 1].underlyingAddress
             entry == positionResults'[Len(positionResults')]
             sub == positionSubs'[Len(positionSubs')]
         IN  /\ Len(positionResults') = i + serialIdx + 1
             /\ SubSeq(positionResults', 1, Len(positionResults)) = positionResults
             /\ entry.tokenAddress = token
             /\ calls'.serial = calls.serial + 1
             /\ SerialReadFailed(sub, "int256") => entry.position = "0"
             /\ tokenData' = tokenData
    /\ pc' = "serial" => (serialIdx' = serialIdx + 1 /\ i' = i /\ stage' = stage)
    /\ pc' # "serial" => serialIdx + 1 = Len(Batch)
    /\ pc' # "failed"

MetadataFellBack(p) ==
  \/ SerialReadFailed(subResults[p][1], "address")
  \/ SerialReadFailed(subResults[p][2], "uint8")
  \/ SerialReadFailed(subResults[p][3], "string")
  \/ subResults[p][1].data.value = ZeroAddress

\* C29: every entry of a returned report follows the fallback policy. An
\* entry whose lpTokenAddress is null belongs to an item whose metadata fell
\* back: its tokenAddress is the item's identity, its decimals 18 and its
\* symbol 'LP'. An entry whose lpTokenAddress is not null names its item,
\* whose metadata did not fall back: its tokenAddress is the non-null
\* reference decoded for that item, with the decoded decimals and symbol.
C29_EntriesFollowFallbackPolicy ==
  (pc = "done" /\ report.returned) =>
    \A k \in 1..Len(report.positions) :
      LET e == report.positions[k]
      IN  IF e.lpTokenAddress = null
          THEN \E p \in 1..Len(lpTokens) :
                 /\ lpTokens[p] = e.tokenAddress
                 /\ MetadataFellBack(p)
                 /\ e.decimals = FallbackDecimals
                 /\ e.tokenSymbol = FallbackSymbol
          ELSE \E p \in 1..Len(lpTokens) :
                 /\ lpTokens[p] = e.lpTokenAddress
                 /\ ~MetadataFellBack(p)
                 /\ e.tokenAddress = subResults[p][1].data.value
                 /\ e.tokenAddress # ZeroAddress
                 /\ e.decimals = subResults[p][2].data.value
                 /\ e.tokenSymbol = subResults[p][3].data.value

\* A returned report with an entry of either kind.
C29_Witness ==
  /\ pc = "done" /\ report.returned
  /\ \E k, k2 \in 1..Len(report.positions) :
       /\ report.positions[k].lpTokenAddress = null
       /\ report.positions[k2].lpTokenAddress # null

\* C30: no aggregate request carries more calls than the chunk of its stage
\* allows: at most 30 calls (10 items, 3 calls each) in a metadata request,
\* at most 20 calls in a quantity request; a retry request carries at most
\* as many calls as the request it retries and never zero calls.
C30_RequestsWithinChunk ==
  \A r \in 1..Len(requests) :
    LET n == Len(requests[r].calls)
    IN  /\ stage = "meta" => n <= 3 * batchSize
        /\ stage = "pos" => n <= positionBatchSize
        /\ r > 1 => (n >= 1 /\ n <= Len(requests[r - 1].calls))

\* A full quantity chunk of 20 calls, after full metadata chunks of 30 calls,
\* whose one failed call has been retried alone.
C30_Witness ==
  /\ stage = "pos"
  /\ calls.aggregateMeta >= 3
  /\ Len(requests) = 2
  /\ Len(requests[1].calls) = positionBatchSize
  /\ Len(requests[2].calls) = 1

\* An invocation that has settled has settled as it would alone: with the
\* report of a run alone for its owner and height, or with the error of its
\* own failed liveness probe.
SettledAsAlone(f) ==
  /\ f.pc = "done" =>
       /\ f.report.returned
       /\ Timeless(f.report) = SoloReport(f.pmmAddress, f.targetBlock)
  /\ f.pc = "failed" => f.error \in {ProbeError(probe) : probe \in ProbeOutcomes \ {"ok"}}

\* C26: two runs for different owners on the same fetcher and network do not
\* interfere: under every interleaving of their steps each returns the
\* report it would return alone against the same remote state.
C26_RunsDoNotInterfere ==
  /\ SettledAsAlone(Frame)
  /\ SettledAsAlone(runs.suspended)

\* Both runs have returned a report, on a registry with items, and their
\* reports differ; each issued its own liveness probe, so the second run had
\* started before the probe of the first settled.
C26_Witness ==
  /\ pc = "done" /\ runs.suspended.pc = "done"
  /\ Len(report.positions) > 0
  /\ report.positions # runs.suspended.report.positions
  /\ calls.probe = 2

\* The invocation of batchCallWithRetry has settled: it returned its results
\* or raised.
CallSettled == pc \in {"bcReturned", "bcThrown"}

C32_Attempts ==
  /\ pc = "bcInitial" => Len(requests) = 0
  /\ pc \in {"bcLoop", "bcReturned", "bcThrown"} =>
       /\ Len(requests) >= 1
       /\ Len(requests) <= 1 + maxRetries
       /\ maxRetries = PipelineMaxRetries => Len(requests) <= 2
  /\ pc = "bcReturned" =>
       \/ Len(requests) = 1 + maxRetries
       \/ \A p \in 1..Len(results) : results[p].success

C32_RetryStep ==
  pc = "bcLoop" =>
    /\ Len(requests') > Len(requests) => \E p \in 1..Len(results) : ~results[p].success
    /\ (\A p \in 1..Len(results) : results[p].success) => pc' = "bcReturned"

\* C32: one invocation of batchCallWithRetry(calls, maxRetries) issues at
\* least 1 and at most 1 + maxRetries aggregate requests (at most 2 with the
\* pipeline's maxRetries = 1), retries only while some result has success =
\* false and returns as soon as none has, and always settles.
C32_BoundedAttempts ==
  /\ []C32_Attempts
  /\ [][C32_RetryStep]_vars
  /\ <>CallSettled

\* An invocation that used every attempt it is allowed: maxRetries = 2 and
\* three aggregate requests, the call that failed first failing each time.
C32_Witness ==
  /\ pc = "bcReturned"
  /\ maxRetries = 2
  /\ Len(requests) = 3
  /\ \E p \in 1..Len(results) : ~results[p].success

\* The indices whose result is successful, in a list of results.
Succeeded(res) == {p \in 1..Len(res) : res[p].success}

\* C33: inside batchCallWithRetry a result that is successful is never
\* re-submitted and never overwritten by a later round: a retry request holds
\* no call of a successful index, the round leaves the result at every
\* successful index as it was, so that the indices still failed after the
\* round are among those failed before it, and returning changes no result:
\* the result returned at such an index is the one of the first attempt that
\* succeeded.
C33_SuccessIsFinal ==
  [][pc = "bcLoop" =>
       /\ Len(requests') > Len(requests) =>
            \A p \in Succeeded(results) :
              \A r \in 1..Len(requests'[Len(requests')].calls) :
                requests'[Len(requests')].calls[r] # contractCalls[p]
       /\ pc' \in {"bcLoop", "bcReturned"} =>
            /\ Len(results') = Len(results)
            /\ \A p \in Succeeded(results) : results'[p] = results[p]
            /\ Succeeded(results) \subseteq Succeeded(results')]_vars

\* Two calls were submitted; the first succeeded at once, the second failed
\* and succeeded when it was retried alone, and both results are returned.
C33_Witness ==
  /\ pc = "bcReturned"
  /\ Len(contractCalls) = 2
  /\ Len(requests) = 2
  /\ requests[2].calls = <<contractCalls[2]>>
  /\ results[1].success /\ results[1].data.value = RemoteValue(contractCalls[1])
  /\ results[2].success

\* The positions(owner, token) call whose answer is the quantity of `token`.
QuantityCall(owner, token) ==
  [target |-> CreditVaultAddress, allowFailure |-> TRUE,
   callData |-> [method |-> "positions", params |-> <<owner, token>>]]

\* C34: the stages are aligned by content: the metadata entry at index p is
\* that of the p-th discovered item, the quantity entry at p names the
\* reference resolved for that item and was built from the answer to
\* positions(owner, that reference), whatever path (aggregate, retry, serial
\* fallback) produced either entry; at the join the three lists have the
\* same length.
C34_AlignedByContent ==
  /\ Len(tokenData) <= Len(lpTokens)
  /\ Len(positionResults) <= Len(tokenData)
  /\ \A p \in 1..Len(tokenData) : tokenData[p].lpTokenAddress = lpTokens[p]
  /\ \A p \in 1..Len(positionResults) :
       /\ positionResults[p].tokenAddress = tokenData[p].underlyingAddress
       /\ IsAnswerTo(positionSubs[p], QuantityCall(pmmAddress, tokenData[p].underlyingAddress))
       /\ positionResults[p].position # <<"0">> =>
            BigInt(positionResults[p].position)
              = RemoteValue(QuantityCall(pmmAddress, tokenData[p].underlyingAddress))
  /\ (pc = "done" /\ report.returned) =>
       /\ Len(tokenData) = Len(lpTokens)
       /\ Len(positionResults) = Len(tokenData)

\* A returned report on two items with different references whose metadata
\* came from the serial fallback and whose quantities came from an aggregate
\* request and its retry.
C34_Witness ==
  /\ pc = "done" /\ report.returned
  /\ Len(tokenData) = 2
  /\ calls.serial = 6
  /\ calls.aggregatePos = 2
  /\ tokenData[1].isLPToken /\ tokenData[2].isLPToken
  /\ tokenData[1].underlyingAddress # tokenData[2].underlyingAddress
  /\ Len(report.positions) = 2

\* The run has finished: it returned a report or raised.
Finished == pc \in {"done", "failed"}

\* The size of the chunks of the current batched stage.
ChunkSize == IF stage = "meta" THEN batchSize ELSE positionBatchSize

C35_LoopsBounded ==
  /\ Len(reads) <= SafetyLimit + 1
  /\ stage \in {"meta", "pos"} =>
       /\ i % ChunkSize = 0
       /\ i < Len(lpTokens)

C35_ChunkStep ==
  (stage \in {"meta", "pos"} /\ stage' = stage /\ i' # i) => i' = i + ChunkSize

\* The steps one chunk takes at most: its aggregate request, its retries, the
\* processing of its results and, in the catch branch, one step per item.
ChunkSteps == positionBatchSize + PipelineMaxRetries + 3

\* The steps the current chunk may still take.
StepsLeftInChunk ==
  CASE pc = "bcInitial" -> ChunkSize + maxRetries + 2
    [] pc = "bcLoop"    -> ChunkSize + (maxRetries - retryCount) + 1
    [] pc = "serial"    -> ChunkSize - serialIdx

\* The chunks of a list of n items that start after offset `off`.
ChunksAfter(n, off, size) == CeilDiv(n - off, size) - 1

\* The steps a run may still take: a natural number that is 0 exactly when
\* the run has finished.
StepsLeft ==
  LET most == SafetyLimit + 1
      stages == ChunkSteps * (CeilDiv(most, batchSize) + CeilDiv(most, positionBatchSize))
      scanning == (SafetyLimit + 1 - index) + 1 + stages
  IN  CASE pc = "start"   -> SafetyLimit + 4 + stages
        [] pc = "connect" -> SafetyLimit + 3 + stages
        [] pc = "scan"    -> scanning
        [] pc \in {"bcInitial", "bcLoop", "serial"} /\ stage = "meta" ->
             StepsLeftInChunk
               + ChunkSteps * ChunksAfter(Len(lpTokens), i, batchSize)
               + ChunkSteps * CeilDiv(Len(lpTokens), positionBatchSize)
        [] pc \in {"bcInitial", "bcLoop", "serial"} /\ stage = "pos" ->
             StepsLeftInChunk
               + ChunkSteps * ChunksAfter(Len(lpTokens), i, positionBatchSize)
        [] pc \in {"done", "failed"} -> 0

\* The run has a next step: the guard of one of its actions holds (the
\* remote call it awaits has an outcome, the loop it is in has an item or a
\* result to go on with).
CanStep ==
  \/ pc \in {"start", "connect"}
  \/ pc = "scan" /\ ReadOutcomes(env, index) # {}
  \/ pc = "bcInitial" /\ aggregate3(contractCalls) # {}
  \/ pc = "bcLoop" /\ (RetryPending \/ stage \in {"meta", "pos"})
  \/ pc = "serial" /\ stage \in {"meta", "pos"} /\ serialIdx < Len(Batch)

\* C35: every run of listPmmPositions eventually finishes, by returning a
\* report or by raising, provided every remote call settles: a run that has
\* not finished always has a next step, which it takes once the call it
\* awaits settles, and every step lowers the number of steps the run may
\* still take, a natural number; the scan issues finitely many reads
\* whatever the registry does (at most 1001 when it never returns the null
\* identity), and each batching loop advances by a full chunk per iteration,
\* never beyond the end of its list.
C35_RunFinishes ==
  /\ []C35_LoopsBounded
  /\ [][C35_ChunkStep]_vars
  /\ [](Finished \/ CanStep)
  /\ [](StepsLeft >= 0 /\ (StepsLeft = 0 <=> Finished))
  /\ [][StepsLeft' < StepsLeft]_vars

\* A run on the registry that never returns the null identity has returned
\* its report, on the 1001 identities it read before the safety limit.
C35_Witness ==
  /\ pc = "done" /\ report.returned
  /\ Len(reads) = SafetyLimit + 1
  /\ report.summary.totalTokens = SafetyLimit + 1


\* The positions list, totalTokens and tokensWithPositions of two reports
\* are the same.
SameResult(a, b) ==
  /\ a.positions = b.positions
  /\ a.summary.totalTokens = b.summary.totalTokens
  /\ a.summary.tokensWithPositions = b.summary.tokensWithPositions

\* The three variants were applied to the input.
AllVariantsRan ==
  /\ variants.on
  /\ variants.library.returned /\ variants.browser.returned /\ variants.handler.returned

\* C31: on a remote state none of whose calls fails, the library fetcher,
\* the browser fetcher and the HTTP handler produce the same positions list,
\* the same totalTokens and the same tokensWithPositions for the same owner,
\* network and height.
C31_VariantsAgree ==
  AllVariantsRan =>
    /\ SameResult(variants.library, variants.browser)
    /\ SameResult(variants.library, variants.handler)

\* The variants agree for every height other than block 0, and the browser
\* fetcher and the handler agree for every height.
VariantsAgreeOffGenesis ==
  AllVariantsRan =>
    /\ SameResult(variants.browser, variants.handler)
    /\ variants.targetBlock # 0 => SameResult(variants.library, variants.browser)

====
